---- MODULE Spec2Model ----
(***************************************************************************)
(* Distributed rate limiter (challenges/php/002-distributed-rate-limiter): *)
(* InMemoryStorage, the three algorithms, RateLimitConfig, RateLimiter.    *)
(*                                                                         *)
(* Time is counted in whole seconds.  PHP floats are modelled as exact     *)
(* rationals (token counts are records [n, d] in lowest terms).            *)
(***************************************************************************)
EXTENDS Integers, Sequences, FiniteSets, TLC

VARIABLES
    clock,          \* what InMemoryStorage::getTime() returns
    storage,        \* InMemoryStorage: [counters, timestamps, buckets]
    available,      \* InMemoryStorage::$available
    metricsHooks,   \* RateLimiter::$metricsHooks
    config,         \* the RateLimitConfig(s) of the scenario
    pc,             \* per caller: position inside an algorithm's check
    local,          \* per caller: the locals of the check in progress
    hist,           \* observation: what the checks made so far returned
    last            \* observation: the outcome of the latest operation

vars == <<clock, storage, available, metricsHooks, config, pc, local, hist, last>>

----------------------------------------------------------------------------
(* Bounds of the model *)

MaxTime == 6
MaxLimit == 2
MaxWindow == 2
MaxChecks == 5
RaceChecks == 3
RaceMaxTime == 4
NumCallers == 2

Callers == 1..NumCallers
Times == 0..MaxTime
RaceTimes == 0..RaceMaxTime

Min(a, b) == IF a <= b THEN a ELSE b
Max(a, b) == IF a >= b THEN a ELSE b

\* ceil(a / b) for b > 0
CeilDiv(a, b) == -((-a) \div b)

----------------------------------------------------------------------------
(* Exact rationals standing for PHP floats *)

RECURSIVE Gcd(_, _)
Gcd(a, b) == IF b = 0 THEN a ELSE Gcd(b, a % b)

Abs(a) == IF a < 0 THEN -a ELSE a

Rat(n, d) ==
    LET g == Gcd(Abs(n), d)
    IN  [n |-> n \div g, d |-> d \div g]

RInt(i) == [n |-> i, d |-> 1]
RAdd(a, b) == Rat(a.n * b.d + b.n * a.d, a.d * b.d)
RSub(a, b) == Rat(a.n * b.d - b.n * a.d, a.d * b.d)
RMul(a, b) == Rat(a.n * b.n, a.d * b.d)
RLeq(a, b) == a.n * b.d <= b.n * a.d
RMin(a, b) == IF RLeq(a, b) THEN a ELSE b

----------------------------------------------------------------------------
(* PHP arrays; the fields of a new InMemoryStorage *)

EmptyMap == [x \in {} |-> 0]

EmptyStorage == [counters |-> EmptyMap, timestamps |-> EmptyMap, buckets |-> EmptyMap]

\* PHP array write $a[$k] = $v
Put(f, k, v) == [x \in (DOMAIN f) \cup {k} |-> IF x = k THEN v ELSE f[x]]

\* PHP unset() of every key outside keep
Restrict(f, keep) == [x \in keep |-> f[x]]

----------------------------------------------------------------------------
(* RedisStorage: one keyspace of strings (INCRBY), sorted sets (ZADD) and  *)
(* hashes (HMSET), each key with the expiry time its last EXPIRE gave it.  *)
(* now is the time of the Redis server, the one getTime() returns.         *)

EmptyRedis == [redis |-> EmptyMap]

\* Redis drops a key once its expiry time is reached
Redis_expire(st, now) ==
    [redis |-> Restrict(st.redis, {k \in DOMAIN st.redis : st.redis[k].expires > now})]

\* lines 58-66: MULTI, INCRBY, EXPIRE, EXEC
Redis_increment(st, key, value, ttl, now) ==
    LET s1  == Redis_expire(st, now)
        old == IF key \in DOMAIN s1.redis THEN s1.redis[key].value ELSE 0
        new == [value |-> old + value, expires |-> now + ttl]
    IN  [st |-> [redis |-> Put(s1.redis, key, new)], ret |-> new.value]

\* lines 79-85: ZADD with a unique member, EXPIRE
Redis_addTimestamp(st, key, timestamp, ttl, now) ==
    LET s1  == Redis_expire(st, now)
        old == IF key \in DOMAIN s1.redis THEN s1.redis[key].scores ELSE <<>>
        new == [scores |-> Append(old, timestamp), expires |-> now + ttl]
    IN  [st |-> [redis |-> Put(s1.redis, key, new)], ret |-> TRUE]

\* lines 87-90: ZCOUNT key min max
Redis_countTimestamps(st, key, min, max, now) ==
    LET s1 == Redis_expire(st, now)
        hits == IF key \notin DOMAIN s1.redis THEN <<>>
                ELSE SelectSeq(s1.redis[key].scores, LAMBDA x : x >= min /\ x <= max)
    IN  [st |-> s1, ret |-> Len(hits)]

\* lines 92-96: ZREMRANGEBYSCORE key -inf cutoff, which removes the score equal
\* to cutoff too; Redis deletes a sorted set that becomes empty
Redis_removeTimestampsBefore(st, key, cutoff, now) ==
    LET s1   == Redis_expire(st, now)
        kept == IF key \notin DOMAIN s1.redis THEN <<>>
                ELSE SelectSeq(s1.redis[key].scores, LAMBDA x : x > cutoff)
    IN  [st  |-> [redis |-> IF kept = <<>>
                            THEN Restrict(s1.redis, DOMAIN s1.redis \ {key})
                            ELSE [s1.redis EXCEPT ![key].scores = kept]],
         ret |-> TRUE]

\* lines 15-42 and 98-118: TOKEN_BUCKET_SCRIPT, whose now is ARGV[3] = $newRefillTime
Redis_decrementToken(st, key, tokens, lastRefillTime, newRefillTime, maxTokens, ttl, now) ==
    LET s1 == Redis_expire(st, now)
        found       == key \in DOMAIN s1.redis
        have        == IF found THEN s1.redis[key].tokens ELSE RInt(maxTokens)
        last_refill == IF found THEN s1.redis[key].last_refill ELSE newRefillTime
        refill_rate == Rat(maxTokens * 2, ttl)          \* max_tokens / (ttl / 2)
        elapsed     == newRefillTime - last_refill
        new_tokens  == RMin(RInt(maxTokens), RAdd(have, RMul(RInt(elapsed), refill_rate)))
        ok          == RLeq(RInt(tokens), new_tokens)
        bucket == [tokens |-> IF ok THEN RSub(new_tokens, RInt(tokens)) ELSE new_tokens,
                   last_refill |-> newRefillTime, expires |-> now + ttl]
    IN  [st |-> [redis |-> Put(s1.redis, key, bucket)], ret |-> ok]

----------------------------------------------------------------------------
(* InMemoryStorage *)

Unexpired(entries, now) == SelectSeq(entries, LAMBDA e : e.expires >= now)

cleanupExpired(st, now) ==
    LET filtered == [k \in DOMAIN st.timestamps |-> Unexpired(st.timestamps[k], now)]
    IN  [counters   |-> Restrict(st.counters,
                            {k \in DOMAIN st.counters : ~(st.counters[k].expires < now)}),
         timestamps |-> Restrict(filtered,
                            {k \in DOMAIN filtered : filtered[k] # <<>>}),
         buckets    |-> Restrict(st.buckets,
                            {k \in DOMAIN st.buckets : ~(st.buckets[k].expires < now)})]

\* increment($key, $value, $ttl) at storage time now: the new storage and the return value
increment(st, key, value, ttl, now) ==
    LET s1    == cleanupExpired(st, now)
        fresh == key \notin DOMAIN s1.counters \/ s1.counters[key].expires < now
        base  == IF fresh THEN [value |-> 0, expires |-> now + ttl]
                          ELSE s1.counters[key]
        new   == [base EXCEPT !.value = @ + value]
    IN  [st |-> [s1 EXCEPT !.counters = Put(@, key, new)], ret |-> new.value]

\* lines 75-80 without the expiry handling
get_stale(st, key, now) ==
    [st  |-> st,
     ret |-> IF key \notin DOMAIN st.counters THEN <<>> ELSE <<st.counters[key].value>>]

\* get($key): ret is <<>> for null, <<v>> for the value v
get(st, key, now) ==
    LET s1 == cleanupExpired(st, now)
    IN  [st  |-> s1,
         ret |-> IF key \notin DOMAIN s1.counters \/ s1.counters[key].expires < now
                 THEN <<>> ELSE <<s1.counters[key].value>>]

addTimestamp(st, key, timestamp, ttl, now) ==
    LET s1  == cleanupExpired(st, now)
        old == IF key \in DOMAIN s1.timestamps THEN s1.timestamps[key] ELSE <<>>
        new == Append(old, [timestamp |-> timestamp, expires |-> timestamp + ttl])
    IN  [st |-> [s1 EXCEPT !.timestamps = Put(@, key, new)], ret |-> TRUE]

countTimestamps(st, key, min, max, now) ==
    LET s1 == cleanupExpired(st, now)
        hits == IF key \notin DOMAIN s1.timestamps THEN <<>>
                ELSE SelectSeq(s1.timestamps[key],
                         LAMBDA e : e.timestamp >= min /\ e.timestamp <= max
                                    /\ e.expires >= now)
    IN  [st |-> s1, ret |-> Len(hits)]

\* lines 131-140 removing nothing
removeTimestampsBefore_nothing(st, key, cutoff, now) == [st |-> st, ret |-> TRUE]

\* as removeTimestampsBefore, but dropping the entry at the cutoff too
removeTimestampsBefore_inclusive(st, key, cutoff, now) ==
    IF key \notin DOMAIN st.timestamps
    THEN [st |-> st, ret |-> TRUE]
    ELSE [st  |-> [st EXCEPT !.timestamps[key] =
                      SelectSeq(@, LAMBDA e : e.timestamp > cutoff /\ e.expires >= now)],
          ret |-> TRUE]

removeTimestampsBefore(st, key, cutoff, now) ==
    IF key \notin DOMAIN st.timestamps
    THEN [st |-> st, ret |-> TRUE]
    ELSE [st  |-> [st EXCEPT !.timestamps[key] =
                      SelectSeq(@, LAMBDA e : e.timestamp >= cutoff /\ e.expires >= now)],
          ret |-> TRUE]

\* line 157: a new bucket starts full
InitialTokens_empty(maxTokens) == RInt(0)

InitialTokens(maxTokens) == RInt(maxTokens)

\* decrementToken: lastRefillTime and newRefillTime are ignored by InMemoryStorage
decrementToken(st, key, tokens, lastRefillTime, newRefillTime, maxTokens, ttl, now) ==
    LET s1     == cleanupExpired(st, now)
        fresh  == key \notin DOMAIN s1.buckets \/ s1.buckets[key].expires < now
        bucket == IF fresh
                  THEN [tokens |-> InitialTokens(maxTokens), lastRefill |-> now,
                        expires |-> now + ttl, maxTokens |-> maxTokens]
                  ELSE s1.buckets[key]
        elapsed     == now - bucket.lastRefill
        refillRate  == Rat(maxTokens * 2, ttl)          \* maxTokens / (ttl / 2)
        tokensToAdd == RMul(RInt(elapsed), refillRate)
        filled == RMin(RInt(maxTokens), RAdd(bucket.tokens, tokensToAdd))
        ok     == RLeq(RInt(tokens), filled)
        after  == [bucket EXCEPT !.tokens = IF ok THEN RSub(filled, RInt(tokens)) ELSE filled,
                                 !.lastRefill = now]
    IN  [st |-> [s1 EXCEPT !.buckets = Put(@, key, after)], ret |-> ok]

----------------------------------------------------------------------------
(* RateLimitConfig and RateLimitDecision *)

\* keyPrefix is <<>> for null and <<p>> for the string p
RateLimitConfig(limit, windowSeconds, algorithm, failClosed, keyPrefix) ==
    [limit |-> limit, windowSeconds |-> windowSeconds, algorithm |-> algorithm,
     failClosed |-> failClosed, keyPrefix |-> keyPrefix]

RateLimitDecision(allowed, limit, remaining, resetTime, algorithm, reason, metadata) ==
    [allowed |-> allowed, limit |-> limit, remaining |-> remaining,
     resetTime |-> resetTime, algorithm |-> algorithm, reason |-> reason,
     metadata |-> metadata]

----------------------------------------------------------------------------
(* FixedWindowAlgorithm *)

\* line 32 rounding up instead of down
FixedWindow_windowIndex_ceil(now, cfg) == CeilDiv(now, cfg.windowSeconds)

FixedWindow_windowIndex(now, cfg) == now \div cfg.windowSeconds

\* line 33 without the window index
FixedWindow_windowKey_noIndex(key, windowIndex) == key \o ":fw"

FixedWindow_windowKey(key, windowIndex) == key \o ":fw:" \o ToString(windowIndex)

FixedWindow_allows_strict(count, cfg) == count < cfg.limit

\* line 45 letting one more through
FixedWindow_allows_lenient(count, cfg) == count <= cfg.limit + 1

FixedWindow_allows(count, cfg) == count <= cfg.limit

\* check() reporting limit - count unclamped, also when it denies
FixedWindow_check_unclamped(key, cfg, st, now, snow) ==
    LET windowIndex == FixedWindow_windowIndex(now, cfg)
        inc   == increment(st, FixedWindow_windowKey(key, windowIndex), 1,
                           cfg.windowSeconds * 2, snow)
        meta  == [window_index |-> windowIndex, window_count |-> inc.ret]
        reset == (windowIndex + 1) * cfg.windowSeconds
    IN  [st  |-> inc.st,
         ret |-> RateLimitDecision(FixedWindow_allows(inc.ret, cfg), cfg.limit,
                     cfg.limit - inc.ret, reset, "fixed_window",
                     IF FixedWindow_allows(inc.ret, cfg)
                     THEN "Request within fixed window limit"
                     ELSE "Fixed window limit exceeded", meta)]

\* check() with the counter's ttl of line 36 one window long
FixedWindow_check_shortTtl(key, cfg, st, now, snow) ==
    LET windowIndex == FixedWindow_windowIndex(now, cfg)
        inc   == increment(st, FixedWindow_windowKey(key, windowIndex), 1,
                           cfg.windowSeconds, snow)
        meta  == [window_index |-> windowIndex, window_count |-> inc.ret]
        reset == (windowIndex + 1) * cfg.windowSeconds
    IN  [st  |-> inc.st,
         ret |-> IF FixedWindow_allows(inc.ret, cfg)
                 THEN RateLimitDecision(TRUE, cfg.limit, Max(0, cfg.limit - inc.ret), reset,
                          "fixed_window", "Request within fixed window limit", meta)
                 ELSE RateLimitDecision(FALSE, cfg.limit, 0, reset,
                          "fixed_window", "Fixed window limit exceeded", meta)]

\* check() keeping the increment of line 36 only when the check is allowed
FixedWindow_check_uncounted(key, cfg, st, now, snow) ==
    LET windowIndex == FixedWindow_windowIndex(now, cfg)
        inc   == increment(st, FixedWindow_windowKey(key, windowIndex), 1,
                           cfg.windowSeconds * 2, snow)
        meta  == [window_index |-> windowIndex, window_count |-> inc.ret]
        reset == (windowIndex + 1) * cfg.windowSeconds
    IN  IF FixedWindow_allows(inc.ret, cfg)
        THEN [st  |-> inc.st,
              ret |-> RateLimitDecision(TRUE, cfg.limit, Max(0, cfg.limit - inc.ret), reset,
                          "fixed_window", "Request within fixed window limit", meta)]
        ELSE [st  |-> st,
              ret |-> RateLimitDecision(FALSE, cfg.limit, 0, reset,
                          "fixed_window", "Fixed window limit exceeded", meta)]

\* check() from the point where $now has been read; the increment runs at storage time snow
FixedWindow_check(key, cfg, st, now, snow) ==
    LET windowIndex == FixedWindow_windowIndex(now, cfg)
        windowKey   == FixedWindow_windowKey(key, windowIndex)
        inc         == increment(st, windowKey, 1, cfg.windowSeconds * 2, snow)
        count       == inc.ret
        windowStart == windowIndex * cfg.windowSeconds
        windowEnd   == windowStart + cfg.windowSeconds
        resetTime   == windowEnd
        remaining   == cfg.limit - count
        meta        == [window_index |-> windowIndex, window_count |-> count]
    IN  [st  |-> inc.st,
         ret |-> IF FixedWindow_allows(count, cfg)
                 THEN RateLimitDecision(TRUE, cfg.limit, Max(0, remaining), resetTime,
                          "fixed_window", "Request within fixed window limit", meta)
                 ELSE RateLimitDecision(FALSE, cfg.limit, 0, resetTime,
                          "fixed_window", "Fixed window limit exceeded", meta)]

----------------------------------------------------------------------------
(* Shared steps *)

NoOp == [op |-> "none"]

\* storage time passes, up to the horizon max
TickTo(max) ==
    /\ clock < max
    /\ clock' = clock + 1
    /\ UNCHANGED <<storage, available, metricsHooks, config, pc, local, hist, last>>

----------------------------------------------------------------------------
(* Concurrent Fixed Window checks of one key: each check is one getTime    *)
(* read followed, later, by one atomic increment.                          *)

RaceKey == "race:key"

FWWindow0 == [calls |-> 0, allowed |-> 0, first |-> 0, late |-> FALSE]

FWInit ==
    /\ clock = 0
    /\ storage = EmptyStorage
    /\ available = TRUE
    /\ metricsHooks = <<>>
    /\ config \in {RateLimitConfig(l, w, "fixed_window", TRUE, <<>>) :
                      l \in 1..MaxLimit, w \in 1..MaxWindow}
    /\ pc = [p \in Callers |-> "idle"]
    /\ local = [p \in Callers |-> [now |-> 0]]
    /\ hist = [started |-> 0, win |-> [i \in RaceTimes |-> FWWindow0]]
    /\ last = NoOp

\* line 29: $now = $storage->getTime()
FWRead(p) ==
    /\ pc[p] = "idle"
    /\ hist.started < RaceChecks
    /\ pc' = [pc EXCEPT ![p] = "increment"]
    /\ local' = [local EXCEPT ![p] = [now |-> clock]]
    /\ hist' = [hist EXCEPT !.started = @ + 1]
    /\ UNCHANGED <<clock, storage, available, metricsHooks, config, last>>

\* lines 32-72: the atomic increment and the decision
FWIncrement(p) ==
    /\ pc[p] = "increment"
    /\ LET r   == FixedWindow_check(RaceKey, config, storage, local[p].now, clock)
           idx == FixedWindow_windowIndex(local[p].now, config)
           w   == hist.win[idx]
           first == IF w.calls = 0 THEN clock ELSE w.first
       IN  /\ storage' = r.st
           /\ hist' = [hist EXCEPT !.win[idx] =
                         [calls   |-> w.calls + 1,
                          allowed |-> w.allowed + (IF r.ret.allowed THEN 1 ELSE 0),
                          first   |-> first,
                          late    |-> w.late \/ clock > first + 2 * config.windowSeconds]]
    /\ pc' = [pc EXCEPT ![p] = "idle"]
    /\ UNCHANGED <<clock, available, metricsHooks, config, local, last>>

FWNext == TickTo(RaceMaxTime) \/ \E p \in Callers : FWRead(p) \/ FWIncrement(p)

SpecFW == FWInit /\ [][FWNext]_vars

\* C1 (as stated): for every window index, the number of checks answered
\* allowed=true equals min(n, limit), n being the checks made for that index.
C1_ExactPerWindow ==
    \A i \in RaceTimes :
        hist.win[i].allowed = Min(hist.win[i].calls, config.limit)

\* C1 (amended): the same, for every window index all of whose increments ran
\* no later than 2 * windowSeconds after the first increment for that index.
C1_ExactPerWindowBeforeTtl ==
    \A i \in RaceTimes :
        ~hist.win[i].late =>
            hist.win[i].allowed = Min(hist.win[i].calls, config.limit)

\* more checks than limit have been made for one window index, from interleaved callers
C1_Witness ==
    \E i \in RaceTimes :
        /\ ~hist.win[i].late
        /\ hist.win[i].calls > config.limit
        /\ hist.win[i].allowed = config.limit
        /\ \E p \in Callers : pc[p] = "increment"

----------------------------------------------------------------------------
(* TokenBucketAlgorithm *)

TokenBucket_bucketKey(key) == key \o ":bucket"

\* check() from the point where $now has been read; decrementToken runs at storage time snow
TokenBucket_check(key, cfg, st, now, snow) ==
    LET bucketKey  == TokenBucket_bucketKey(key)
        refillRate == Rat(cfg.limit, cfg.windowSeconds)
        dec        == decrementToken(st, bucketKey, 1, now - 1, now, cfg.limit,
                                     cfg.windowSeconds * 2, snow)
        \* ceil($now + 1 / $refillRate)
        nextTokenTime == now + CeilDiv(cfg.windowSeconds, cfg.limit)
    IN  [st  |-> dec.st,
         ret |-> IF dec.ret
                 THEN RateLimitDecision(TRUE, cfg.limit, 0, nextTokenTime,
                          "token_bucket", "Token consumed from bucket",
                          [refill_rate_per_sec |-> refillRate,
                           bucket_capacity |-> cfg.limit])
                 ELSE RateLimitDecision(FALSE, cfg.limit, 0, nextTokenTime,
                          "token_bucket", "Bucket empty, tokens refilling",
                          [refill_rate_per_sec |-> refillRate,
                           estimated_wait_seconds |->
                               Rat(cfg.windowSeconds, cfg.limit)])]

----------------------------------------------------------------------------
(* Sequential Token Bucket checks of one key at non-decreasing storage time *)

BurstKey == "user:burst"

RECURSIVE SumOver(_, _, _)
\* f[a] + ... + f[b]
SumOver(f, a, b) == IF a > b THEN 0 ELSE f[a] + SumOver(f, a + 1, b)

\* observation of sequential checks: how many were made, and allowed, at each instant
NoChecks == [total |-> 0, checks |-> [t \in Times |-> 0], admits |-> [t \in Times |-> 0]]

Observed(h, t, allowed) ==
    [total  |-> h.total + 1,
     checks |-> [h.checks EXCEPT ![t] = @ + 1],
     admits |-> [h.admits EXCEPT ![t] = @ + (IF allowed THEN 1 ELSE 0)]]

\* the instant u < t of the latest earlier check is at least w seconds back, or there is none
IdleFor(h, t, w) == \A u \in Times : (u < t /\ h.checks[u] > 0) => t - u >= w

TBInit ==
    /\ clock = 0
    /\ storage = EmptyStorage
    /\ available = TRUE
    /\ metricsHooks = <<>>
    /\ config \in {RateLimitConfig(l, w, "token_bucket", TRUE, <<>>) :
                      l \in 1..MaxLimit, w \in 1..MaxWindow}
    /\ pc = [p \in Callers |-> "idle"]
    /\ local = [p \in Callers |-> [now |-> 0]]
    /\ hist = NoChecks
    /\ last = NoOp

TBCheck ==
    /\ hist.total < MaxChecks
    /\ LET r == TokenBucket_check(BurstKey, config, storage, clock, clock)
       IN  /\ storage' = r.st
           /\ hist' = Observed(hist, clock, r.ret.allowed)
           /\ last' = [op |-> "check", at |-> clock, decision |-> r.ret]
    /\ UNCHANGED <<clock, available, metricsHooks, config, pc, local>>

TBNext == TickTo(MaxTime) \/ TBCheck

SpecTB == TBInit /\ [][TBNext]_vars

\* C2: the number of checks allowed at times in [t1, t2] is at most
\* limit + ceil((t2 - t1) * limit / windowSeconds).
C2_BurstBound ==
    \A t1 \in Times : \A t2 \in Times :
        t1 <= t2 =>
            SumOver(hist.admits, t1, t2)
                <= config.limit + CeilDiv((t2 - t1) * config.limit, config.windowSeconds)

----------------------------------------------------------------------------
(* SlidingWindowAlgorithm *)

\* line 31 without the algorithm's suffix
SlidingWindow_windowKey_bare(key) == key

SlidingWindow_windowKey(key) == key \o ":sw"

\* lines 38-75: the decision once $currentCount is known
SlidingWindow_decide(cfg, now, currentCount) ==
    LET windowStart == now - cfg.windowSeconds
        resetTime   == now + cfg.windowSeconds
    IN  IF currentCount < cfg.limit
        THEN RateLimitDecision(TRUE, cfg.limit, cfg.limit - currentCount - 1, resetTime,
                 "sliding_window", "Request within sliding window limit",
                 [window_count |-> currentCount + 1, window_start |-> windowStart])
        ELSE RateLimitDecision(FALSE, cfg.limit, 0, resetTime,
                 "sliding_window", "Sliding window limit exceeded",
                 [window_count |-> currentCount, window_start |-> windowStart])

\* lines 38-40 with the addTimestamp made on denial too
SlidingWindow_record_always(key, cfg, st, now, currentCount, snow) ==
    addTimestamp(st, SlidingWindow_windowKey(key), now, cfg.windowSeconds * 2, snow).st

\* lines 38-40 without the addTimestamp
SlidingWindow_record_never(key, cfg, st, now, currentCount, snow) == st

\* lines 38-40: addTimestamp only when the count is below the limit
SlidingWindow_record(key, cfg, st, now, currentCount, snow) ==
    IF currentCount < cfg.limit
    THEN addTimestamp(st, SlidingWindow_windowKey(key), now, cfg.windowSeconds * 2, snow).st
    ELSE st

\* check() from the point where $now has been read, every storage call at storage time snow
SlidingWindow_check(key, cfg, st, now, snow) ==
    LET windowStart == now - cfg.windowSeconds
        windowKey   == SlidingWindow_windowKey(key)
        evicted     == removeTimestampsBefore(st, windowKey, windowStart, snow)
        counted     == countTimestamps(evicted.st, windowKey, windowStart, now, snow)
    IN  [st  |-> SlidingWindow_record(key, cfg, counted.st, now, counted.ret, snow),
         ret |-> SlidingWindow_decide(cfg, now, counted.ret)]

----------------------------------------------------------------------------
(* Sequential Sliding Window checks of one key at non-decreasing storage time *)

SlideKey == "user:sw"

SWInit ==
    /\ clock = 0
    /\ storage = EmptyStorage
    /\ available = TRUE
    /\ metricsHooks = <<>>
    /\ config \in {RateLimitConfig(l, w, "sliding_window", TRUE, <<>>) :
                      l \in 1..MaxLimit, w \in 1..MaxWindow}
    /\ pc = [p \in Callers |-> "idle"]
    /\ local = [p \in Callers |-> [now |-> 0]]
    /\ hist = NoChecks
    /\ last = NoOp

SWCheck ==
    /\ hist.total < MaxChecks
    /\ LET r == SlidingWindow_check(SlideKey, config, storage, clock, clock)
       IN  /\ storage' = r.st
           /\ hist' = Observed(hist, clock, r.ret.allowed)
           /\ last' = [op |-> "check", at |-> clock, decision |-> r.ret,
                       prior |-> SumOver(hist.admits,
                                         Max(0, clock - config.windowSeconds), clock)]
    /\ UNCHANGED <<clock, available, metricsHooks, config, pc, local>>

SWNext == TickTo(MaxTime) \/ SWCheck

SpecSW == SWInit /\ [][SWNext]_vars

----------------------------------------------------------------------------
(* Concurrent Sliding Window checks of one key: the evict, count and add   *)
(* storage calls of different checks interleave.                           *)

SWRaceInit ==
    /\ clock = 0
    /\ storage = EmptyStorage
    /\ available = TRUE
    /\ metricsHooks = <<>>
    /\ config \in {RateLimitConfig(l, w, "sliding_window", TRUE, <<>>) :
                      l \in 1..MaxLimit, w \in 1..MaxWindow}
    /\ pc = [p \in Callers |-> "idle"]
    /\ local = [p \in Callers |-> [now |-> 0, count |-> 0]]
    /\ hist = [started |-> 0, admits |-> [t \in RaceTimes |-> 0]]
    /\ last = NoOp

\* line 29
SWRaceRead(p) ==
    /\ pc[p] = "idle"
    /\ hist.started < RaceChecks
    /\ pc' = [pc EXCEPT ![p] = "evict"]
    /\ local' = [local EXCEPT ![p] = [now |-> clock, count |-> 0]]
    /\ hist' = [hist EXCEPT !.started = @ + 1]
    /\ UNCHANGED <<clock, storage, available, metricsHooks, config, last>>

\* line 35
SWRaceEvict(p) ==
    /\ pc[p] = "evict"
    /\ storage' = removeTimestampsBefore(storage, SlidingWindow_windowKey(RaceKey),
                      local[p].now - config.windowSeconds, clock).st
    /\ pc' = [pc EXCEPT ![p] = "count"]
    /\ UNCHANGED <<clock, available, metricsHooks, config, local, hist, last>>

\* line 36
SWRaceCount(p) ==
    /\ pc[p] = "count"
    /\ LET c == countTimestamps(storage, SlidingWindow_windowKey(RaceKey),
                    local[p].now - config.windowSeconds, local[p].now, clock)
       IN  /\ storage' = c.st
           /\ local' = [local EXCEPT ![p].count = c.ret]
    /\ pc' = [pc EXCEPT ![p] = "add"]
    /\ UNCHANGED <<clock, available, metricsHooks, config, hist, last>>

\* lines 38-75
SWRaceAdd(p) ==
    /\ pc[p] = "add"
    /\ LET d == SlidingWindow_decide(config, local[p].now, local[p].count)
       IN  /\ storage' = SlidingWindow_record(RaceKey, config, storage, local[p].now,
                                              local[p].count, clock)
           /\ hist' = [hist EXCEPT !.admits[local[p].now] =
                                       @ + (IF d.allowed THEN 1 ELSE 0)]
    /\ pc' = [pc EXCEPT ![p] = "idle"]
    /\ UNCHANGED <<clock, available, metricsHooks, config, local, last>>

SWRaceNext ==
    \/ TickTo(RaceMaxTime)
    \/ \E p \in Callers : SWRaceRead(p) \/ SWRaceEvict(p) \/ SWRaceCount(p) \/ SWRaceAdd(p)

SpecSWRace == SWRaceInit /\ [][SWRaceNext]_vars

\* C4: when the storage calls of concurrent checks interleave, the admissions
\* whose timestamps lie in one window of length windowSeconds number at most
\* limit * 1.01.
C4_RaceBound ==
    \A t \in RaceTimes :
        100 * SumOver(hist.admits, t, Min(RaceMaxTime, t + config.windowSeconds))
            <= 101 * config.limit

----------------------------------------------------------------------------
(* The storage primitives called directly, at non-decreasing storage time *)

CounterKey == "counter"
BucketKey == "tokens:bucket"

\* the TTL every algorithm passes: two windows
StoreTtl == 2 * config.windowSeconds

StoreInit ==
    /\ clock = 0
    /\ storage = EmptyStorage
    /\ available = TRUE
    /\ metricsHooks = <<>>
    /\ config \in {RateLimitConfig(l, w, "token_bucket", TRUE, <<>>) :
                      l \in 1..MaxLimit, w \in 1..MaxWindow}
    /\ pc = [p \in Callers |-> "idle"]
    /\ local = [p \in Callers |-> [now |-> 0]]
    /\ hist = [total |-> 0, mutatedAt |-> -1, ret |-> 0, sum |-> 0, expiry |-> -1]
    /\ last = NoOp

\* the counter as its callers know it: h.sum is what was added since it was
\* last created, h.expiry the time of that creation plus the ttl (-1: never created)
CounterElapsed(h, now) == h.expiry < 0 \/ now > h.expiry

StIncrement(delta) ==
    /\ hist.total < RaceChecks
    /\ LET ttl == StoreTtl
           r == increment(storage, CounterKey, delta, ttl, clock)
       IN  /\ storage' = r.st
           /\ last' = [op |-> "increment", key |-> CounterKey, at |-> clock, ttl |-> ttl,
                       delta |-> delta, ret |-> r.ret,
                       prevAt |-> hist.mutatedAt, prevRet |-> hist.ret,
                       elapsed |-> CounterElapsed(hist, clock)]
           /\ hist' = [total |-> hist.total + 1, mutatedAt |-> clock, ret |-> r.ret,
                       sum |-> IF CounterElapsed(hist, clock) THEN delta
                               ELSE hist.sum + delta,
                       expiry |-> IF CounterElapsed(hist, clock) THEN clock + ttl
                                  ELSE hist.expiry]
    /\ UNCHANGED <<clock, available, metricsHooks, config, pc, local>>

StGet ==
    /\ hist.total < RaceChecks
    /\ LET r == get(storage, CounterKey, clock)
       IN  /\ storage' = r.st
           /\ last' = [op |-> "get", key |-> CounterKey, at |-> clock, ret |-> r.ret]
    /\ hist' = [hist EXCEPT !.total = @ + 1]
    /\ UNCHANGED <<clock, available, metricsHooks, config, pc, local>>

StDecrementToken ==
    /\ hist.total < RaceChecks
    /\ LET ttl == StoreTtl
           r == decrementToken(storage, BucketKey, 1, clock - 1, clock, config.limit,
                               ttl, clock)
       IN  /\ storage' = r.st
           /\ last' = [op |-> "decrementToken", key |-> BucketKey, at |-> clock,
                       ttl |-> ttl, ret |-> r.ret]
    /\ hist' = [hist EXCEPT !.total = @ + 1]
    /\ UNCHANGED <<clock, available, metricsHooks, config, pc, local>>

StoreNext ==
    \/ TickTo(RaceMaxTime)
    \/ \E delta \in 1..MaxLimit : StIncrement(delta)
    \/ StGet
    \/ StDecrementToken

SpecStore == StoreInit /\ [][StoreNext]_vars

\* C10: increment and decrementToken executed at storage time t with ttl leave
\* the entry expiring no earlier than t + ttl; so a counter incremented again
\* within ttl of its previous increment continues from its previous value.
C10_MutationRefreshesExpiry ==
    /\ last.op = "increment" =>
          /\ storage.counters[last.key].expires >= last.at + last.ttl
          /\ (last.prevAt >= 0 /\ last.at - last.prevAt <= last.ttl)
                => last.ret = last.prevRet + last.delta
    /\ last.op = "decrementToken" =>
          storage.buckets[last.key].expires >= last.at + last.ttl

----------------------------------------------------------------------------
(* RateLimitConfig::getKey and RateLimiter *)

RateLimitConfig_getKey_noPrefix(cfg, identifier) == identifier

\* line 43 without the separator
RateLimitConfig_getKey_noColon(cfg, identifier) ==
    IF cfg.keyPrefix = <<>> THEN identifier
    ELSE cfg.keyPrefix[1] \o identifier

RateLimitConfig_getKey(cfg, identifier) ==
    IF cfg.keyPrefix = <<>> THEN identifier
    ELSE cfg.keyPrefix[1] \o ":" \o identifier

\* the algorithms' check() over a storage whose primitives consult isAvailable()
\* and refuse to act while it is false
Algorithm_check_consulting(key, cfg, st, now) ==
    IF ~available
    THEN [st  |-> st,
          ret |-> RateLimitDecision(~cfg.failClosed, cfg.limit, 0, now + cfg.windowSeconds,
                      "unknown", "Storage unavailable", [fail_closed |-> cfg.failClosed])]
    ELSE CASE cfg.algorithm = "fixed_window"   -> FixedWindow_check(key, cfg, st, now, now)
           [] cfg.algorithm = "sliding_window" -> SlidingWindow_check(key, cfg, st, now, now)
           [] cfg.algorithm = "token_bucket"   -> TokenBucket_check(key, cfg, st, now, now)

\* $config->algorithm->check($key, $config, $storage), every getTime() returning now
Algorithm_check(key, cfg, st, now) ==
    CASE cfg.algorithm = "fixed_window"   -> FixedWindow_check(key, cfg, st, now, now)
      [] cfg.algorithm = "sliding_window" -> SlidingWindow_check(key, cfg, st, now, now)
      [] cfg.algorithm = "token_bucket"   -> TokenBucket_check(key, cfg, st, now, now)

\* the three algorithms' check() with $storage a RedisStorage whose clock shows
\* now: the storage calls of Algorithm_check on the Redis primitives, and allowed
Algorithm_check_redis(key, cfg, st, now) ==
    LET inc     == Redis_increment(st,
                       FixedWindow_windowKey(key, FixedWindow_windowIndex(now, cfg)),
                       1, cfg.windowSeconds * 2, now)
        evicted == Redis_removeTimestampsBefore(st, SlidingWindow_windowKey(key),
                       now - cfg.windowSeconds, now)
        counted == Redis_countTimestamps(evicted.st, SlidingWindow_windowKey(key),
                       now - cfg.windowSeconds, now, now)
        added   == Redis_addTimestamp(counted.st, SlidingWindow_windowKey(key), now,
                       cfg.windowSeconds * 2, now)
        dec     == Redis_decrementToken(st, TokenBucket_bucketKey(key), 1, now - 1, now,
                       cfg.limit, cfg.windowSeconds * 2, now)
    IN  CASE cfg.algorithm = "fixed_window" ->
                 [st |-> inc.st, allowed |-> FixedWindow_allows(inc.ret, cfg)]
          [] cfg.algorithm = "sliding_window" ->
                 [st |-> IF counted.ret < cfg.limit THEN added.st ELSE counted.st,
                  allowed |-> SlidingWindow_decide(cfg, now, counted.ret).allowed]
          [] cfg.algorithm = "token_bucket" ->
                 [st |-> dec.st, allowed |-> dec.ret]

\* as handleStorageUnavailable, with the two policies exchanged
RateLimiter_handleStorageUnavailable_swapped(cfg, wall) ==
    IF ~cfg.failClosed
    THEN RateLimitDecision(FALSE, cfg.limit, 0, wall + cfg.windowSeconds, "unknown",
             "Storage unavailable - fail closed", [fail_closed |-> TRUE])
    ELSE RateLimitDecision(TRUE, cfg.limit, cfg.limit, wall + cfg.windowSeconds, "unknown",
             "Storage unavailable - fail open", [fail_open |-> TRUE])

\* wall is what time() returns
RateLimiter_handleStorageUnavailable(cfg, wall) ==
    IF cfg.failClosed
    THEN RateLimitDecision(FALSE, cfg.limit, 0, wall + cfg.windowSeconds, "unknown",
             "Storage unavailable - fail closed", [fail_closed |-> TRUE])
    ELSE RateLimitDecision(TRUE, cfg.limit, cfg.limit, wall + cfg.windowSeconds, "unknown",
             "Storage unavailable - fail open", [fail_open |-> TRUE])

\* the callbacks a caller may register
Callbacks == {"metrics", "audit"}

\* as emitMetrics, but leaving out the hook registered last
RateLimiter_emitMetrics_short(hooks, decision, thrower) ==
    [calls  |-> [i \in 1..(Len(hooks) - 1) |-> [hook |-> hooks[i], decision |-> decision]],
     thrown |-> FALSE]

\* the foreach over $metricsHooks: the calls made, in order, and whether one threw.
\* thrower is the position of the first hook whose call throws, 0 when none does.
RateLimiter_emitMetrics(hooks, decision, thrower) ==
    LET stop == IF thrower = 0 THEN Len(hooks) ELSE thrower
    IN  [calls  |-> [i \in 1..stop |-> [hook |-> hooks[i], decision |-> decision]],
         thrown |-> thrower # 0]

\* as check, without the isAvailable gate of lines 41-45
RateLimiter_check_noGate(identifier, cfg, st, avail, hooks, now, wall, thrower) ==
    LET r  == Algorithm_check(RateLimitConfig_getKey(cfg, identifier), cfg, st, now)
        em == RateLimiter_emitMetrics(hooks, r.ret, thrower)
    IN  [st |-> r.st, decision |-> r.ret, calls |-> em.calls,
         outcome |-> IF em.thrown THEN "thrown" ELSE "returned"]

\* as check, undoing the algorithm's storage writes when a hook throws
RateLimiter_check_rollback(identifier, cfg, st, avail, hooks, now, wall, thrower) ==
    LET r == IF ~avail
             THEN [st |-> st, ret |-> RateLimiter_handleStorageUnavailable(cfg, wall)]
             ELSE Algorithm_check(RateLimitConfig_getKey(cfg, identifier), cfg, st, now)
        em == RateLimiter_emitMetrics(hooks, r.ret, thrower)
    IN  [st |-> IF em.thrown THEN st ELSE r.st, decision |-> r.ret, calls |-> em.calls,
         outcome |-> IF em.thrown THEN "thrown" ELSE "returned"]

\* check(): the storage afterwards, the decision built, the hook calls made and
\* whether the decision was returned or an exception left check
RateLimiter_check(identifier, cfg, st, avail, hooks, now, wall, thrower) ==
    LET r == IF ~avail
             THEN [st |-> st, ret |-> RateLimiter_handleStorageUnavailable(cfg, wall)]
             ELSE Algorithm_check(RateLimitConfig_getKey(cfg, identifier), cfg, st, now)
        em == RateLimiter_emitMetrics(hooks, r.ret, thrower)
    IN  [st |-> r.st, decision |-> r.ret, calls |-> em.calls,
         outcome |-> IF em.thrown THEN "thrown" ELSE "returned"]

\* the algorithm's check when its failAt-th storage call throws (a RedisException,
\* say) before taking effect: the storage as the calls before it left it, and
\* whether the algorithm makes that many storage calls at all
Algorithm_check_fault(key, cfg, st, now, failAt) ==
    LET windowKey == SlidingWindow_windowKey(key)
        evicted   == removeTimestampsBefore(st, windowKey, now - cfg.windowSeconds, now)
        counted   == countTimestamps(evicted.st, windowKey, now - cfg.windowSeconds, now, now)
        sliding   == cfg.algorithm = "sliding_window"
    IN  CASE failAt = 1 -> [st |-> st, thrown |-> TRUE]
          [] failAt = 2 -> [st |-> IF sliding THEN evicted.st ELSE st, thrown |-> sliding]
          [] failAt = 3 -> [st |-> IF sliding THEN counted.st ELSE st,
                            thrown |-> sliding /\ counted.ret < cfg.limit]

\* as check_fault, with a catch around line 48 that falls back to the failure policy
RateLimiter_check_fault_caught(identifier, cfg, st, hooks, now, wall, failAt) ==
    LET f  == Algorithm_check_fault(RateLimitConfig_getKey(cfg, identifier), cfg, st, now, failAt)
        d  == RateLimiter_handleStorageUnavailable(cfg, wall)
        em == RateLimiter_emitMetrics(hooks, d, 0)
    IN  [st |-> f.st, decision |-> d, calls |-> em.calls, outcome |-> "returned"]

\* check() with the storage available and a storage call of the algorithm throwing:
\* line 48 stands in no try block, so lines 50-51 are not reached
RateLimiter_check_fault(identifier, cfg, st, hooks, now, wall, failAt) ==
    LET f == Algorithm_check_fault(RateLimitConfig_getKey(cfg, identifier), cfg, st, now, failAt)
    IN  [st |-> f.st, calls |-> <<>>, outcome |-> "thrown"]

----------------------------------------------------------------------------
(* One RateLimiter over one storage: hooks are registered, the storage goes *)
(* down and comes back, checks are made one after the other.               *)

MaxHooks == 2
MaxSkew == 1
LimiterChecks == 3
LimiterMaxTime == 2

Algorithms == {"fixed_window", "sliding_window", "token_bucket"}

UserId == "user:123"

\* what time() may return when the storage clock shows now
WallTimes(now) == {now + k : k \in 0..MaxSkew}

RLInit ==
    /\ clock = 0
    /\ storage = EmptyStorage
    /\ available = TRUE
    /\ metricsHooks = <<>>
    /\ config \in {RateLimitConfig(MaxLimit, MaxWindow, a, f, <<>>) :
                      a \in Algorithms, f \in BOOLEAN}
    /\ pc = [p \in Callers |-> "idle"]
    /\ local = [p \in Callers |-> [now |-> 0]]
    /\ hist = [total |-> 0]
    /\ last = NoOp

RLOnDecision(callback) ==
    /\ Len(metricsHooks) < MaxHooks
    /\ metricsHooks' = Append(metricsHooks, callback)
    /\ last' = [op |-> "onDecision"]
    /\ UNCHANGED <<clock, storage, available, config, pc, local, hist>>

RLSetAvailable(b) ==
    /\ available # b
    /\ available' = b
    /\ last' = [op |-> "setAvailable"]
    /\ UNCHANGED <<clock, storage, metricsHooks, config, pc, local, hist>>

RLCheck(wall, thrower) ==
    /\ hist.total < LimiterChecks
    /\ LET r == RateLimiter_check(UserId, config, storage, available, metricsHooks,
                                  clock, wall, thrower)
       IN  /\ storage' = r.st
           /\ last' = [op |-> "check", at |-> clock, thrower |-> thrower,
                       decision |-> r.decision,
                       calls |-> r.calls, outcome |-> r.outcome,
                       touched |-> r.st # storage]
    /\ hist' = [total |-> hist.total + 1]
    /\ UNCHANGED <<clock, available, metricsHooks, config, pc, local>>

\* a check during which the failAt-th storage call of the algorithm throws
RLCheckFault(failAt) ==
    /\ hist.total < LimiterChecks
    /\ available
    /\ Algorithm_check_fault(RateLimitConfig_getKey(config, UserId), config, storage,
                             clock, failAt).thrown
    /\ LET r == RateLimiter_check_fault(UserId, config, storage, metricsHooks,
                                        clock, clock, failAt)
       IN  /\ storage' = r.st
           /\ last' = [op |-> "fault", at |-> clock, failAt |-> failAt,
                       result |-> [x \in DOMAIN r \ {"st"} |-> r[x]]]
    /\ hist' = [total |-> hist.total + 1]
    /\ UNCHANGED <<clock, available, metricsHooks, config, pc, local>>

RLNext ==
    \/ TickTo(LimiterMaxTime)
    \/ \E callback \in Callbacks : RLOnDecision(callback)
    \/ \E b \in BOOLEAN : RLSetAvailable(b)
    \/ \E wall \in (IF available THEN {clock} ELSE WallTimes(clock)),
          thrower \in 0..Len(metricsHooks) :
          RLCheck(wall, thrower)
    \/ \E failAt \in 1..3 : RLCheckFault(failAt)

SpecRL == RLInit /\ [][RLNext]_vars

\* the decision of the storage-unavailable path, as the failure policy prescribes
UnavailableDecisionOk(d) ==
    /\ d.allowed = ~config.failClosed
    /\ d.algorithm = "unknown"
    /\ d.limit = config.limit
    /\ d.reason \in {"Storage unavailable - fail closed", "Storage unavailable - fail open"}
    /\ IF config.failClosed
       THEN d.remaining = 0 /\ d.metadata = [fail_closed |-> TRUE]
       ELSE d.remaining = config.limit /\ d.metadata = [fail_open |-> TRUE]

C6_HooksInOrder ==
    (last.op = "check" /\ last.outcome = "returned") =>
        last.calls = [i \in 1..Len(metricsHooks) |->
                         [hook |-> metricsHooks[i], decision |-> last.decision]]

\* two different hooks called on the storage-unavailable path
C6_Witness ==
    /\ last.op = "check" /\ last.outcome = "returned"
    /\ ~available
    /\ Len(metricsHooks) = 2
    /\ metricsHooks[1] # metricsHooks[2]
    /\ Len(last.calls) = 2

----------------------------------------------------------------------------
(* Two tenants: configs that differ only in keyPrefix, the same identifier. *)
(* hist.shadow is the storage of the run in which the first tenant's checks *)
(* are never made; everything else happens in both runs alike.              *)

TenantChecks == 4

Prefixes == {<<>>, <<"tenant-a">>, <<"tenant-b">>}

TenantConfigs ==
    LET pairs == {pp \in Prefixes \X Prefixes : pp[1] # pp[2]}
    IN  {[a |-> RateLimitConfig(MaxLimit, MaxWindow, alg, TRUE, pp[1]),
          b |-> RateLimitConfig(MaxLimit, MaxWindow, alg, TRUE, pp[2])] :
            alg \in Algorithms, pp \in pairs}

IsoInit ==
    /\ clock = 0
    /\ storage = EmptyStorage
    /\ available = TRUE
    /\ metricsHooks = <<>>
    /\ config \in TenantConfigs
    /\ pc = [p \in Callers |-> "idle"]
    /\ local = [p \in Callers |-> [now |-> 0]]
    /\ hist = [total |-> 0, aDenied |-> FALSE, shadow |-> EmptyStorage]
    /\ last = NoOp

IsoCheckA(wall) ==
    /\ hist.total < TenantChecks
    /\ LET r == RateLimiter_check(UserId, config.a, storage, available, metricsHooks,
                                  clock, wall, 0)
       IN  /\ storage' = r.st
           /\ hist' = [hist EXCEPT !.total = @ + 1,
                                   !.aDenied = @ \/ (available /\ ~r.decision.allowed)]
           /\ last' = [op |-> "checkA", decision |-> r.decision]
    /\ UNCHANGED <<clock, available, metricsHooks, config, pc, local>>

IsoCheckB(wall) ==
    /\ hist.total < TenantChecks
    /\ LET r  == RateLimiter_check(UserId, config.b, storage, available, metricsHooks,
                                   clock, wall, 0)
           sh == RateLimiter_check(UserId, config.b, hist.shadow, available, metricsHooks,
                                   clock, wall, 0)
       IN  /\ storage' = r.st
           /\ hist' = [hist EXCEPT !.total = @ + 1, !.shadow = sh.st]
           /\ last' = [op |-> "checkB", real |-> r.decision, shadow |-> sh.decision]
    /\ UNCHANGED <<clock, available, metricsHooks, config, pc, local>>

IsoNext ==
    \/ TickTo(RaceMaxTime)
    \/ \E b \in BOOLEAN : RLSetAvailable(b)
    \/ \E wall \in WallTimes(clock) : IsoCheckA(wall) \/ IsoCheckB(wall)

SpecIso == IsoInit /\ [][IsoNext]_vars

\* C7: whatever checks are made under the first config, every check under the
\* second config gets the decision it gets when the first config's checks are
\* never made.
C7_TenantIsolation ==
    last.op = "checkB" => last.real = last.shadow

\* the first tenant has been denied and the second is then allowed by the algorithm
C7_Witness ==
    /\ last.op = "checkB"
    /\ hist.aDenied
    /\ last.real.allowed
    /\ last.real.algorithm # "unknown"

----------------------------------------------------------------------------
(* The test's multi-tenant scenario: an algorithm's check is called with   *)
(* the same key under two configs that differ only in keyPrefix.           *)

SharedKey == "user:shared"

DirectInit ==
    /\ clock = 0
    /\ storage = EmptyStorage
    /\ available = TRUE
    /\ metricsHooks = <<>>
    /\ config \in TenantConfigs
    /\ pc = [p \in Callers |-> "idle"]
    /\ local = [p \in Callers |-> [now |-> 0]]
    /\ hist = [total |-> 0, aDenied |-> FALSE, bBefore |-> 0, bAfter |-> 0,
               bAfterDenied |-> 0]
    /\ last = NoOp

DirectCheckA ==
    /\ hist.total < MaxChecks
    /\ LET r == Algorithm_check(SharedKey, config.a, storage, clock)
       IN  /\ storage' = r.st
           /\ hist' = [hist EXCEPT !.total = @ + 1, !.aDenied = @ \/ ~r.ret.allowed]
           /\ last' = [op |-> "checkA", decision |-> r.ret]
    /\ UNCHANGED <<clock, available, metricsHooks, config, pc, local>>

DirectCheckB ==
    /\ hist.total < MaxChecks
    /\ LET r == Algorithm_check(SharedKey, config.b, storage, clock)
           denied == IF r.ret.allowed THEN 0 ELSE 1
       IN  /\ storage' = r.st
           /\ hist' = IF hist.aDenied
                      THEN [hist EXCEPT !.total = @ + 1, !.bAfter = @ + 1,
                                        !.bAfterDenied = @ + denied]
                      ELSE [hist EXCEPT !.total = @ + 1, !.bBefore = @ + 1]
           /\ last' = [op |-> "checkB", decision |-> r.ret]
    /\ UNCHANGED <<clock, available, metricsHooks, config, pc, local>>

DirectNext == TickTo(RaceMaxTime) \/ DirectCheckA \/ DirectCheckB

SpecDirect == DirectInit /\ [][DirectNext]_vars

\* C8: once the first config's quota is exhausted and a further check under it
\* denied, the next limit checks under the second config are all allowed.
C8_DirectIsolation ==
    (hist.aDenied /\ hist.bBefore = 0 /\ hist.bAfter <= config.b.limit) =>
        hist.bAfterDenied = 0

----------------------------------------------------------------------------
(* Sliding Window checks of one key by two nodes in turn on one storage:   *)
(* node A reads the storage time as it is, node B reads it up to MaxSkew   *)
(* seconds ahead, so the times the storage returns go back and forth.      *)

SkewTimes == 0..(RaceMaxTime + MaxSkew)

SkewInit ==
    /\ clock = 0
    /\ storage = EmptyStorage
    /\ available = TRUE
    /\ metricsHooks = <<>>
    /\ config \in {RateLimitConfig(l, w, "sliding_window", TRUE, <<>>) :
                      l \in 1..MaxLimit, w \in 1..MaxWindow}
    /\ pc = [p \in Callers |-> "idle"]
    /\ local = [p \in Callers |-> [now |-> 0]]
    /\ hist = [total |-> 0, checks |-> [t \in SkewTimes |-> 0],
               admits |-> [t \in SkewTimes |-> 0]]
    /\ last = NoOp

\* one check by a node whose time override returns clock + skew
SkewCheck(skew) ==
    /\ hist.total < MaxChecks
    /\ LET r == SlidingWindow_check(RaceKey, config, storage, clock + skew, clock + skew)
       IN  /\ storage' = r.st
           /\ hist' = Observed(hist, clock + skew, r.ret.allowed)
           /\ last' = [op |-> "check", at |-> clock + skew, decision |-> r.ret]
    /\ UNCHANGED <<clock, available, metricsHooks, config, pc, local>>

\* node A: "correct" time
SkewCheckA == hist.total % 2 = 0 /\ SkewCheck(0)

\* node B: ahead
SkewCheckB == hist.total % 2 = 1 /\ \E skew \in 1..MaxSkew : SkewCheck(skew)

SkewNext == TickTo(RaceMaxTime) \/ SkewCheckA \/ SkewCheckB

SpecSkew == SkewInit /\ [][SkewNext]_vars

\* C11: with two nodes checking one key in turn, their times at most 1 second
\* apart, the admissions whose timestamps lie in one window of length
\* windowSeconds number at most limit * 1.01.
C11_SkewBound ==
    \A t \in SkewTimes :
        100 * SumOver(hist.admits, t, Min(RaceMaxTime + MaxSkew, t + config.windowSeconds))
            <= 101 * config.limit

----------------------------------------------------------------------------
(* One RateLimiter whose caller switches the algorithm from check to check, *)
(* on identifiers chosen so that one looks like another's storage key.      *)

SwitchIds == {"user:switch", "user:switch:fw:0"}

SwitchInit ==
    /\ clock = 0
    /\ storage = EmptyStorage
    /\ available = TRUE
    /\ metricsHooks = <<>>
    /\ config \in {RateLimitConfig(1, w, "fixed_window", TRUE, <<>>) : w \in 1..MaxWindow}
    /\ pc = [p \in Callers |-> "idle"]
    /\ local = [p \in Callers |-> [now |-> 0]]
    /\ hist = [total |-> 0, by |-> [a \in Algorithms |-> 0],
               shadow |-> [a \in Algorithms |-> EmptyStorage]]
    /\ last = NoOp

\* check(identifier, config with the given algorithm); hist.shadow[algorithm] is
\* the storage of the run in which only the checks under this algorithm happen
SwitchCheck(identifier, algorithm) ==
    /\ hist.total < LimiterChecks
    /\ LET cfg == [config EXCEPT !.algorithm = algorithm]
           r   == RateLimiter_check(identifier, cfg, storage, available, metricsHooks,
                                    clock, clock, 0)
           sh  == RateLimiter_check(identifier, cfg, hist.shadow[algorithm], available,
                                    metricsHooks, clock, clock, 0)
       IN  /\ storage' = r.st
           /\ hist' = [hist EXCEPT !.total = @ + 1, !.by[algorithm] = @ + 1,
                                   !.shadow[algorithm] = sh.st]
           /\ last' = [op |-> "check", real |-> r.decision, shadow |-> sh.decision]
    /\ UNCHANGED <<clock, available, metricsHooks, config, pc, local>>

SwitchNext ==
    \/ TickTo(RaceMaxTime)
    \/ \E identifier \in SwitchIds, algorithm \in Algorithms :
          SwitchCheck(identifier, algorithm)

SpecSwitch == SwitchInit /\ [][SwitchNext]_vars

\* C12: the keys of counters (Fixed Window), timestamp sets (Sliding Window)
\* and buckets (Token Bucket) never coincide, and every check gets the decision
\* it gets when the checks under the other algorithms are never made.
C12_AlgorithmsDisjoint ==
    /\ DOMAIN storage.counters \cap DOMAIN storage.timestamps = {}
    /\ DOMAIN storage.counters \cap DOMAIN storage.buckets = {}
    /\ DOMAIN storage.timestamps \cap DOMAIN storage.buckets = {}
    /\ last.op = "check" => last.real = last.shadow

\* an algorithm denies an identifier after checks under other algorithms
C12_Witness ==
    /\ last.op = "check"
    /\ ~last.real.allowed
    /\ hist.by[last.real.algorithm] < hist.total

----------------------------------------------------------------------------
(* Decisions of one RateLimiter and the Retry-After value and the headers *)
(* read from them.                                                         *)
(* The storage clock is the one getTime() returns; getRetryAfter() reads  *)
(* time(), the clock of the PHP host, which runs up to RetrySkew seconds  *)
(* ahead of it.                                                           *)

RetryWindow == 3
RetrySkew == 2

\* wall is what time() returns
RateLimitDecision_getRetryAfter(decision, wall) == Max(1, decision.resetTime - wall)

\* lines 39-43 with the remaining and reset values exchanged
RateLimitDecision_getHeaders_swapped(decision) ==
    ("X-RateLimit-Limit" :> ToString(decision.limit))
    @@ ("X-RateLimit-Remaining" :> ToString(decision.resetTime))
    @@ ("X-RateLimit-Reset" :> ToString(Max(0, decision.remaining)))

\* the array getHeaders() returns; (string) of an int is its decimal notation
RateLimitDecision_getHeaders(decision) ==
    ("X-RateLimit-Limit" :> ToString(decision.limit))
    @@ ("X-RateLimit-Remaining" :> ToString(Max(0, decision.remaining)))
    @@ ("X-RateLimit-Reset" :> ToString(decision.resetTime))

RetryInit ==
    /\ clock = 0
    /\ storage = EmptyStorage
    /\ available = TRUE
    /\ metricsHooks = <<>>
    /\ config \in {RateLimitConfig(l, RetryWindow, a, TRUE, <<>>) :
                      l \in 1..MaxLimit, a \in Algorithms}
    /\ pc = [p \in Callers |-> "idle"]
    /\ local = [p \in Callers |-> [now |-> 0]]
    /\ hist = [total |-> 0]
    /\ last = NoOp

RetryCheck ==
    /\ hist.total < LimiterChecks
    /\ LET r == RateLimiter_check(UserId, config, storage, available, metricsHooks,
                                  clock, clock, 0)
       IN  /\ storage' = r.st
           /\ last' = [op |-> "check", at |-> clock, decision |-> r.decision]
    /\ hist' = [hist EXCEPT !.total = @ + 1]
    /\ UNCHANGED <<clock, available, metricsHooks, config, pc, local>>

\* $decision->getRetryAfter() right after the check, the storage clock not having moved
RetryGetRetryAfter(wall) ==
    /\ last.op = "check"
    /\ last.at = clock
    /\ last' = [op |-> "getRetryAfter", at |-> last.at, decision |-> last.decision,
                ret |-> RateLimitDecision_getRetryAfter(last.decision, wall)]
    /\ UNCHANGED <<clock, storage, available, metricsHooks, config, pc, local, hist>>

\* $decision->getHeaders() on the decision of the latest check
RetryGetHeaders ==
    /\ last.op = "check"
    /\ last' = [op |-> "getHeaders", at |-> last.at, decision |-> last.decision,
                ret |-> RateLimitDecision_getHeaders(last.decision)]
    /\ UNCHANGED <<clock, storage, available, metricsHooks, config, pc, local, hist>>

RetryNext ==
    \/ TickTo(LimiterMaxTime)
    \/ RetryCheck
    \/ RetryGetHeaders
    \/ \E k \in 0..RetrySkew : RetryGetRetryAfter(clock + k)

SpecRetry == RetryInit /\ [][RetryNext]_vars

\* C13: the Retry-After of a denied decision is at least 1 and differs by at
\* most 1 from resetTime minus the storage time of the check.
C13_RetryAfterAccurate ==
    (last.op = "getRetryAfter" /\ ~last.decision.allowed) =>
        /\ last.ret >= 1
        /\ Abs(last.ret - (last.decision.resetTime - last.at)) <= 1

----------------------------------------------------------------------------
(* The same checks made against an InMemoryStorage (storage) and against a *)
(* RedisStorage (hist.redis) whose clocks show the same time.              *)

SwapInit ==
    /\ clock = 0
    /\ storage = EmptyStorage
    /\ available = TRUE
    /\ metricsHooks = <<>>
    /\ config \in {RateLimitConfig(l, w, a, TRUE, <<>>) :
                      l \in 1..MaxLimit, w \in 1..MaxWindow, a \in Algorithms}
    /\ pc = [p \in Callers |-> "idle"]
    /\ local = [p \in Callers |-> [now |-> 0]]
    /\ hist = [total |-> 0, redis |-> EmptyRedis]
    /\ last = NoOp

SwapCheck ==
    /\ hist.total < MaxChecks
    /\ LET mem == Algorithm_check(UserId, config, storage, clock)
           red == Algorithm_check_redis(UserId, config, hist.redis, clock)
       IN  /\ storage' = mem.st
           /\ hist' = [total |-> hist.total + 1, redis |-> red.st]
           /\ last' = [op |-> "check", at |-> clock, memory |-> mem.ret.allowed,
                       redis |-> red.allowed]
    /\ UNCHANGED <<clock, available, metricsHooks, config, pc, local>>

SwapNext == TickTo(MaxTime) \/ SwapCheck

SpecSwap == SwapInit /\ [][SwapNext]_vars

\* C14: every check is allowed by the algorithm over the in-memory storage
\* exactly when it is allowed by the same algorithm over the Redis storage.
C14_BackendsAgree ==
    last.op = "check" => (last.memory <=> last.redis)

----------------------------------------------------------------------------
(* Sequential Fixed Window checks of one key at non-decreasing storage time *)

FWSeqInit ==
    /\ clock = 0
    /\ storage = EmptyStorage
    /\ available = TRUE
    /\ metricsHooks = <<>>
    /\ config \in {RateLimitConfig(l, w, "fixed_window", TRUE, <<>>) :
                      l \in 1..MaxLimit, w \in 1..MaxWindow}
    /\ pc = [p \in Callers |-> "idle"]
    /\ local = [p \in Callers |-> [now |-> 0]]
    /\ hist = NoChecks
    /\ last = NoOp

FWSeqCheck ==
    /\ hist.total < MaxChecks
    /\ LET r == FixedWindow_check(UserId, config, storage, clock, clock)
       IN  /\ storage' = r.st
           /\ last' = [op |-> "check", at |-> clock, decision |-> r.ret]
           /\ hist' = Observed(hist, clock, r.ret.allowed)
    /\ UNCHANGED <<clock, available, metricsHooks, config, pc, local>>

\* $storage->get() of the counter of window windowIndex, a window begun by now
FWSeqGet(windowIndex) ==
    /\ windowIndex * config.windowSeconds <= clock
    /\ LET r == get(storage, FixedWindow_windowKey(UserId, windowIndex), clock)
       IN  /\ storage' = r.st
           /\ last' = [op |-> "get", at |-> clock, window |-> windowIndex, ret |-> r.ret]
    /\ UNCHANGED <<clock, available, metricsHooks, config, pc, local, hist>>

FWSeqNext ==
    \/ TickTo(MaxTime)
    \/ FWSeqCheck
    \/ \E windowIndex \in Times : FWSeqGet(windowIndex)

SpecFWSeq == FWSeqInit /\ [][FWSeqNext]_vars

\* first instant of the window of length windowSeconds that holds t
WindowFirst(t) == (t \div config.windowSeconds) * config.windowSeconds

\* C15: when at most limit checks are made at the last instant of a window,
\* none earlier in it, and at most limit at the first instant of the next
\* window, all of them are allowed.
C15_BoundarySpike ==
    \A t \in Times :
        ( /\ t + 1 \in Times
          /\ WindowFirst(t + 1) = t + 1
          /\ SumOver(hist.checks, WindowFirst(t), t - 1) = 0
          /\ hist.checks[t] <= config.limit
          /\ hist.checks[t + 1] <= config.limit )
        => /\ hist.admits[t] = hist.checks[t]
           /\ hist.admits[t + 1] = hist.checks[t + 1]

\* 2 * limit admissions at two instants one second apart, the window being longer
C15_Witness ==
    \E t \in Times :
        /\ t + 1 \in Times
        /\ WindowFirst(t + 1) = t + 1
        /\ config.windowSeconds > 1
        /\ hist.admits[t] = config.limit
        /\ hist.admits[t + 1] = config.limit

\* C16: a check at time t is in window floor(t / windowSeconds), and it is
\* allowed iff it is at most the limit-th check of the key in that window; so
\* the first check of a new window is allowed whatever happened before.
C16_WindowCount ==
    last.op = "check" =>
        /\ last.decision.metadata.window_index * config.windowSeconds <= last.at
        /\ last.at < (last.decision.metadata.window_index + 1) * config.windowSeconds
        /\ (last.decision.allowed <=>
               SumOver(hist.checks, WindowFirst(last.at), last.at) <= config.limit)

\* the first check of a window is allowed after a denial in the window before
C16_Witness ==
    /\ last.op = "check"
    /\ last.decision.allowed
    /\ last.at >= config.windowSeconds
    /\ SumOver(hist.checks, WindowFirst(last.at), last.at) = 1
    /\ SumOver(hist.checks, WindowFirst(last.at) - config.windowSeconds,
               WindowFirst(last.at) - 1)
         > SumOver(hist.admits, WindowFirst(last.at) - config.windowSeconds,
                   WindowFirst(last.at) - 1)

----------------------------------------------------------------------------
(* Token Bucket refill, over the sequential checks of SpecTB *)

\* C17: when limit checks were allowed at instant t (a full bucket emptied)
\* and no check was allowed between t and u, the checks allowed at u are the
\* first min(limit, floor((u - t) * limit / windowSeconds)) made there, whether
\* or not checks were denied in between.
C17_RefillCount ==
    \A t \in Times : \A u \in Times :
        ( /\ t < u
          /\ hist.admits[t] = config.limit
          /\ SumOver(hist.admits, t + 1, u - 1) = 0 )
        => hist.admits[u] =
               Min(hist.checks[u],
                   Min(config.limit, ((u - t) * config.limit) \div config.windowSeconds))

----------------------------------------------------------------------------
(* The storage-unavailable path and storage faults, over SpecRL *)

\* C18: a check made while isAvailable() is false does not run the algorithm
\* and leaves the storage as it was, whatever the failure policy.
C18_UnavailableTouchesNothing ==
    (last.op = "check" /\ ~available) =>
        /\ ~last.touched
        /\ last.decision.algorithm = "unknown"

\* an admission under fail-open while the storage holds state of earlier checks
C18_Witness ==
    /\ last.op = "check" /\ ~available
    /\ ~config.failClosed
    /\ last.decision.allowed
    /\ storage # EmptyStorage

----------------------------------------------------------------------------
(* Several RateLimiter instances, each with its own hook list, over one    *)
(* storage: their Fixed Window checks of one key interleave between the    *)
(* getTime read and the increment.                                         *)

\* the RateLimiter instances
Limiters == {"limiterA", "limiterB"}

SharedInit ==
    /\ clock = 0
    /\ storage = EmptyStorage
    /\ available = TRUE
    /\ metricsHooks = [p \in Limiters |-> IF p = "limiterA" THEN <<"metrics">> ELSE <<"audit">>]
    /\ config \in {RateLimitConfig(l, w, "fixed_window", TRUE, <<>>) :
                      l \in 1..MaxLimit, w \in 1..MaxWindow}
    /\ pc = [p \in Limiters |-> "idle"]
    /\ local = [p \in Limiters |-> [now |-> 0]]
    /\ hist = [started |-> 0,
               win |-> [i \in RaceTimes |-> [calls |-> 0, allowed |-> 0, first |-> 0,
                                             late |-> FALSE, by |-> {}, hooked |-> 0]]]
    /\ last = NoOp

\* instance p: RateLimiter lines 41-48 and FixedWindowAlgorithm line 29
SharedStart(p) ==
    /\ pc[p] = "idle"
    /\ available
    /\ hist.started < RaceChecks
    /\ pc' = [pc EXCEPT ![p] = "increment"]
    /\ local' = [local EXCEPT ![p] = [now |-> clock]]
    /\ hist' = [hist EXCEPT !.started = @ + 1]
    /\ UNCHANGED <<clock, storage, available, metricsHooks, config, last>>

\* instance p: FixedWindowAlgorithm lines 32-72, then RateLimiter lines 50-51
SharedFinish(p) ==
    /\ pc[p] = "increment"
    /\ LET r   == FixedWindow_check(RateLimitConfig_getKey(config, RaceKey), config,
                                    storage, local[p].now, clock)
           em  == RateLimiter_emitMetrics(metricsHooks[p], r.ret, 0)
           idx == FixedWindow_windowIndex(local[p].now, config)
           w   == hist.win[idx]
           first == IF w.calls = 0 THEN clock ELSE w.first
       IN  /\ storage' = r.st
           /\ hist' = [hist EXCEPT !.win[idx] =
                         [calls   |-> w.calls + 1,
                          allowed |-> w.allowed + (IF r.ret.allowed THEN 1 ELSE 0),
                          first   |-> first,
                          late    |-> w.late \/ clock > first + 2 * config.windowSeconds,
                          by      |-> w.by \cup {p},
                          hooked  |-> w.hooked + Len(em.calls)]]
    /\ pc' = [pc EXCEPT ![p] = "idle"]
    /\ UNCHANGED <<clock, available, metricsHooks, config, local, last>>

SharedNext == TickTo(RaceMaxTime) \/ \E p \in Limiters : SharedStart(p) \/ SharedFinish(p)

SpecShared == SharedInit /\ [][SharedNext]_vars

\* C20 (as stated): the checks of one key that the instances together allow
\* for one window index never number more than limit.
C20_JointQuota ==
    \A i \in RaceTimes : hist.win[i].allowed <= config.limit

\* C20 (amended): the same, for every window index all of whose increments ran
\* no later than 2 * windowSeconds after the first increment for that index.
C20_JointQuotaBeforeTtl ==
    \A i \in RaceTimes : ~hist.win[i].late => hist.win[i].allowed <= config.limit

\* two instances have made more than limit checks for one window index between them
C20_Witness ==
    \E i \in RaceTimes :
        /\ ~hist.win[i].late
        /\ hist.win[i].by = Limiters
        /\ hist.win[i].calls > config.limit
        /\ hist.win[i].allowed = config.limit

----------------------------------------------------------------------------
(* Two runs of the same checks on storages whose time override returns the *)
(* same values, in processes whose own clocks differ: storage and          *)
(* hist.shadow are the storages of the two runs.                           *)

\* lines 29-32 with the override ignored
InMemoryStorage_getTime_wall(timeOverride, wall) == wall

\* timeOverride is <<>> for null and <<t>> for a callable returning t;
\* wall is what microtime(true) returns
InMemoryStorage_getTime(timeOverride, wall) ==
    IF timeOverride # <<>> THEN timeOverride[1] ELSE wall

WallInit ==
    /\ clock = 0
    /\ storage = EmptyStorage
    /\ available = TRUE
    /\ metricsHooks = <<>>
    /\ config \in {RateLimitConfig(l, w, a, TRUE, <<>>) :
                      l \in 1..MaxLimit, w \in 1..MaxWindow, a \in Algorithms}
    /\ pc = [p \in Callers |-> "idle"]
    /\ local = [p \in Callers |-> [now |-> 0]]
    /\ hist = [total |-> 0, shadow |-> EmptyStorage]
    /\ last = NoOp

\* one check in each run, the override returning clock in both
WallCheck(wallA, wallB) ==
    /\ hist.total < MaxChecks
    /\ LET a == Algorithm_check(UserId, config, storage,
                                InMemoryStorage_getTime(<<clock>>, wallA))
           b == Algorithm_check(UserId, config, hist.shadow,
                                InMemoryStorage_getTime(<<clock>>, wallB))
       IN  /\ storage' = a.st
           /\ hist' = [total |-> hist.total + 1, shadow |-> b.st]
           /\ last' = [op |-> "check", walls |-> <<wallA, wallB>>,
                       real |-> a.ret, shadow |-> b.ret]
    /\ UNCHANGED <<clock, available, metricsHooks, config, pc, local>>

WallNext ==
    \/ TickTo(RaceMaxTime)
    \/ \E wallA \in WallTimes(clock), wallB \in WallTimes(clock) : WallCheck(wallA, wallB)

SpecWall == WallInit /\ [][WallNext]_vars

----------------------------------------------------------------------------
(* Counters and their TTL (SpecStore) *)

\* C22: a get after the counter's expiry returns null and an increment after
\* it returns delta; up to the expiry a get returns what was added since the
\* counter was created and an increment returns that plus delta.
C22_CounterLifecycle ==
    /\ last.op = "get" =>
          last.ret = IF CounterElapsed(hist, last.at) THEN <<>> ELSE <<hist.sum>>
    /\ last.op = "increment" =>
          /\ last.ret = hist.sum
          /\ last.elapsed => last.ret = last.delta
          /\ ~last.elapsed => last.ret = last.prevRet + last.delta

\* a get that finds the counter gone after it had accumulated more than one increment
C22_Witness ==
    /\ last.op = "get"
    /\ last.ret = <<>>
    /\ hist.expiry >= 0
    /\ last.at > hist.expiry
    /\ hist.sum > MaxLimit

----------------------------------------------------------------------------
(* Construction of RateLimitConfig objects. config is <<>> while the caller *)
(* holds no config object and <<c>> when it holds c; hist.args are the      *)
(* constructor arguments that object was built from, hist.total the number  *)
(* of constructor calls, assignments and checks made so far.                *)

\* lines 29-34 clamping instead of throwing
RateLimitConfig_construct_clamped(limit, windowSeconds, algorithm, failClosed, keyPrefix) ==
    [thrown |-> <<>>,
     object |-> <<RateLimitConfig(Max(1, limit), Max(1, windowSeconds), algorithm,
                                  failClosed, keyPrefix)>>]

\* new RateLimitConfig(...): the message of the exception thrown, if any, and
\* the object, if one is made
RateLimitConfig_construct(limit, windowSeconds, algorithm, failClosed, keyPrefix) ==
    IF limit <= 0
    THEN [thrown |-> <<"Limit must be positive">>, object |-> <<>>]
    ELSE IF windowSeconds <= 0
    THEN [thrown |-> <<"Window seconds must be positive">>, object |-> <<>>]
    ELSE [thrown |-> <<>>,
          object |-> <<RateLimitConfig(limit, windowSeconds, algorithm,
                                       failClosed, keyPrefix)>>]

CfgInit ==
    /\ clock = 0
    /\ storage = EmptyStorage
    /\ available = TRUE
    /\ metricsHooks = <<>>
    /\ config = <<>>
    /\ pc = [p \in Callers |-> "idle"]
    /\ local = [p \in Callers |-> [now |-> 0]]
    /\ hist = [total |-> 0, args |-> <<>>]
    /\ last = NoOp

\* $config = new RateLimitConfig(limit, windowSeconds, algorithm); a throw
\* leaves the caller with the object it had
CfgNew(limit, windowSeconds, algorithm) ==
    /\ hist.total < LimiterChecks
    /\ LET r == RateLimitConfig_construct(limit, windowSeconds, algorithm, TRUE, <<>>)
       IN  /\ config' = IF r.thrown = <<>> THEN r.object ELSE config
           /\ hist' = [total |-> hist.total + 1,
                       args |-> IF r.thrown = <<>>
                                THEN <<limit, windowSeconds, algorithm>>
                                ELSE hist.args]
           /\ last' = [op |-> "new", limit |-> limit, windowSeconds |-> windowSeconds,
                       thrown |-> r.thrown, made |-> r.object, before |-> config]
    /\ UNCHANGED <<clock, storage, available, metricsHooks, pc, local>>

\* $config->limit = v or $config->windowSeconds = v: the properties are
\* readonly, the assignment throws Error and changes nothing
CfgWrite(field, v) ==
    /\ config # <<>>
    /\ hist.total < LimiterChecks
    /\ last' = [op |-> "write", field |-> field, value |-> v, thrown |-> <<"Error">>,
                before |-> config]
    /\ hist' = [hist EXCEPT !.total = @ + 1]
    /\ UNCHANGED <<clock, storage, available, metricsHooks, config, pc, local>>

\* a check with the config object the caller holds
CfgCheck ==
    /\ config # <<>>
    /\ hist.total < LimiterChecks
    /\ LET r == RateLimiter_check(UserId, config[1], storage, available, metricsHooks,
                                  clock, clock, 0)
       IN  /\ storage' = r.st
           /\ last' = [op |-> "check", limit |-> config[1].limit,
                       windowSeconds |-> config[1].windowSeconds,
                       decision |-> r.decision]
    /\ hist' = [hist EXCEPT !.total = @ + 1]
    /\ UNCHANGED <<clock, available, metricsHooks, config, pc, local>>

CfgNext ==
    \/ TickTo(LimiterMaxTime)
    \/ \E limit \in -1..MaxLimit, windowSeconds \in -1..MaxWindow, algorithm \in Algorithms :
          CfgNew(limit, windowSeconds, algorithm)
    \/ \E field \in {"limit", "windowSeconds"}, v \in -1..MaxLimit : CfgWrite(field, v)
    \/ CfgCheck

SpecCfg == CfgInit /\ [][CfgNext]_vars

\* C23: a constructor call with limit <= 0 throws 'Limit must be positive',
\* one with limit > 0 and windowSeconds <= 0 throws 'Window seconds must be
\* positive', and neither yields an object; every check runs with a positive
\* limit and window; a config object keeps the fields it was constructed with.
C23_ConfigValidated ==
    /\ last.op = "new" =>
          /\ last.limit <= 0 => last.thrown = <<"Limit must be positive">>
          /\ (last.limit > 0 /\ last.windowSeconds <= 0)
                => last.thrown = <<"Window seconds must be positive">>
          /\ (last.limit > 0 /\ last.windowSeconds > 0) => last.thrown = <<>>
          /\ last.thrown # <<>> => (last.made = <<>> /\ config = last.before)
    /\ last.op = "check" => (last.limit > 0 /\ last.windowSeconds > 0)
    /\ last.op = "write" => config = last.before
    /\ config # <<>> =>
          /\ config[1].limit = hist.args[1]
          /\ config[1].windowSeconds = hist.args[2]
          /\ config[1].algorithm = hist.args[3]
          /\ config[1].limit > 0
          /\ config[1].windowSeconds > 0

\* a constructor call with both arguments non-positive, made after checks
\* with a valid config, throws the limit's message
C23_Witness ==
    /\ last.op = "new"
    /\ last.limit <= 0
    /\ last.windowSeconds <= 0
    /\ last.thrown = <<"Limit must be positive">>
    /\ config # <<>>
    /\ hist.total > 0

----------------------------------------------------------------------------
(* Sliding Window under sustained load (SpecSW) *)

\* checks per instant when check number i = 0, 1, ... 2 * limit * k - 1 arrives
\* windowSeconds / (2 * limit) seconds after the one before: twice the permitted
\* rate for k windows
SustainedLoad(k) ==
    [t \in Times |->
        Cardinality({i \in 0..(2 * config.limit * k - 1) :
                        (i * config.windowSeconds) \div (2 * config.limit) = t})]

\* C24: sequential Sliding Window checks arriving at twice the permitted rate
\* for k windows are allowed at most ceil(k * limit * 1.01) times.
C24_PrecisionBound ==
    \A k \in 1..MaxChecks :
        hist.checks = SustainedLoad(k) =>
            SumOver(hist.admits, 0, MaxTime) <= CeilDiv(101 * k * config.limit, 100)

\* two windows of such load have been served and k * limit checks were allowed
C24_Witness ==
    /\ hist.checks = SustainedLoad(2)
    /\ hist.total = 4 * config.limit
    /\ SumOver(hist.admits, 0, MaxTime) = 2 * config.limit

----------------------------------------------------------------------------
(* Concurrent Token Bucket checks of one key: each check is one getTime     *)
(* read followed, later, by one decrementToken call, which is one step.     *)
(* storage is a RedisStorage, hist.memory an InMemoryStorage receiving the  *)
(* same calls.                                                              *)

TBRaceInit ==
    /\ clock = 0
    /\ storage = EmptyRedis
    /\ available = TRUE
    /\ metricsHooks = <<>>
    /\ config \in {RateLimitConfig(l, w, "token_bucket", TRUE, <<>>) :
                      l \in 1..MaxLimit, w \in 1..MaxWindow}
    /\ pc = [p \in Callers |-> "idle"]
    /\ local = [p \in Callers |-> [now |-> 0]]
    /\ hist = [started |-> 0, memory |-> EmptyStorage]
    /\ last = NoOp

\* part_006 line 29
TBRaceRead(p) ==
    /\ pc[p] = "idle"
    /\ hist.started < RaceChecks
    /\ pc' = [pc EXCEPT ![p] = "decrement"]
    /\ local' = [local EXCEPT ![p] = [now |-> clock]]
    /\ hist' = [hist EXCEPT !.started = @ + 1]
    /\ UNCHANGED <<clock, storage, available, metricsHooks, config, last>>

\* part_006 lines 37-44
TBRaceDecrement(p) ==
    /\ pc[p] = "decrement"
    /\ LET now == local[p].now
           red == Redis_decrementToken(storage, TokenBucket_bucketKey(RaceKey), 1, now - 1,
                                       now, config.limit, config.windowSeconds * 2, clock)
           mem == decrementToken(hist.memory, TokenBucket_bucketKey(RaceKey), 1, now - 1,
                                 now, config.limit, config.windowSeconds * 2, clock)
       IN  /\ storage' = red.st
           /\ hist' = [hist EXCEPT !.memory = mem.st]
           /\ last' = [op |-> "decrementToken", now |-> now, at |-> clock,
                       redis |-> red.ret, memory |-> mem.ret]
    /\ pc' = [pc EXCEPT ![p] = "idle"]
    /\ UNCHANGED <<clock, available, metricsHooks, config, local>>

TBRaceNext ==
    \/ TickTo(RaceMaxTime)
    \/ \E p \in Callers : TBRaceRead(p) \/ TBRaceDecrement(p)

SpecTBRace == TBRaceInit /\ [][TBRaceNext]_vars

\* C25: whatever the interleaving of concurrent decrementToken calls on one
\* key, the bucket holds at least 0 and at most maxTokens tokens in every
\* reachable state, in either storage.
C25_TokensInRange ==
    /\ \A k \in DOMAIN storage.redis :
          /\ RLeq(RInt(0), storage.redis[k].tokens)
          /\ RLeq(storage.redis[k].tokens, RInt(config.limit))
    /\ \A k \in DOMAIN hist.memory.buckets :
          /\ RLeq(RInt(0), hist.memory.buckets[k].tokens)
          /\ RLeq(hist.memory.buckets[k].tokens, RInt(config.limit))

----------------------------------------------------------------------------
(* Headers of a Decision (SpecRetry) *)

\* the strings of one or two decimal digits
DigitStrings ==
    LET Digits == {"0", "1", "2", "3", "4", "5", "6", "7", "8", "9"}
    IN  Digits \cup {a \o b : a \in Digits, b \in Digits}

\* C26: getHeaders() returns exactly the keys X-RateLimit-Limit,
\* X-RateLimit-Remaining and X-RateLimit-Reset, holding the configured limit,
\* max(0, remaining) and resetTime as strings of decimal digits; for the first
\* Fixed Window check of a fresh key Remaining is limit - 1.
C26_Headers ==
    last.op = "getHeaders" =>
        /\ DOMAIN last.ret =
              {"X-RateLimit-Limit", "X-RateLimit-Remaining", "X-RateLimit-Reset"}
        /\ last.ret["X-RateLimit-Limit"] = ToString(config.limit)
        /\ last.ret["X-RateLimit-Remaining"] = ToString(Max(0, last.decision.remaining))
        /\ last.ret["X-RateLimit-Reset"] = ToString(last.decision.resetTime)
        /\ \A name \in DOMAIN last.ret : last.ret[name] \in DigitStrings
        /\ (config.algorithm = "fixed_window" /\ hist.total = 1) =>
              last.ret["X-RateLimit-Remaining"] = ToString(config.limit - 1)

\* the headers of the first Fixed Window check of a key, with quota left
C26_Witness ==
    /\ last.op = "getHeaders"
    /\ config.algorithm = "fixed_window"
    /\ hist.total = 1
    /\ last.ret["X-RateLimit-Remaining"] = "1"
    /\ last.ret["X-RateLimit-Reset"] = "3"

----------------------------------------------------------------------------
(* The key RateLimiter::check hands to the algorithm (SpecIso) *)

\* what getKey('user:123') is to return under each prefix of Prefixes
TenantKey(keyPrefix) ==
    CASE keyPrefix = <<>>           -> "user:123"
      [] keyPrefix = <<"tenant-a">> -> "tenant-a:user:123"
      [] keyPrefix = <<"tenant-b">> -> "tenant-b:user:123"

\* per prefix, the storage keys the algorithms use when handed that key
TenantKeys ==
    [keyPrefix \in Prefixes |->
        LET k == TenantKey(keyPrefix)
        IN  {k \o ":sw", k \o ":bucket"} \cup {k \o ":fw:" \o ToString(i) : i \in RaceTimes}]

StoredKeys(st) == DOMAIN st.counters \cup DOMAIN st.timestamps \cup DOMAIN st.buckets

\* C27: getKey returns prefix ':' identifier, or the identifier when the prefix
\* is null, and check gives the algorithm that key and no other: the storage
\* holds only keys made from the two configs' keys, the storage of the run with
\* the second config alone only keys made from the second config's key, and a
\* check served by the algorithm leaves a key made from its own config's key.
C27_KeyDerivation ==
    /\ StoredKeys(storage) \subseteq
          TenantKeys[config.a.keyPrefix] \cup TenantKeys[config.b.keyPrefix]
    /\ StoredKeys(hist.shadow) \subseteq TenantKeys[config.b.keyPrefix]
    /\ (last.op = "checkA" /\ available) =>
          StoredKeys(storage) \cap TenantKeys[config.a.keyPrefix] # {}
    /\ (last.op = "checkB" /\ available) =>
          StoredKeys(storage) \cap TenantKeys[config.b.keyPrefix] # {}

\* a prefixed config and a config without prefix have both left their keys
C27_Witness ==
    /\ config.a.keyPrefix = <<"tenant-a">>
    /\ config.b.keyPrefix = <<>>
    /\ last.op = "checkB"
    /\ {"tenant-a:user:123:sw", "user:123:sw"} \subseteq DOMAIN storage.timestamps

----------------------------------------------------------------------------
(* The timestamp-set primitives called directly, on an InMemoryStorage      *)
(* (storage) and on a RedisStorage (hist.redis) whose clocks show the same  *)
(* time. hist.stamps lists the timestamps added and not yet older than a    *)
(* cutoff passed to removeTimestampsBefore.                                 *)

StampInit ==
    /\ clock = 0
    /\ storage = EmptyStorage
    /\ available = TRUE
    /\ metricsHooks = <<>>
    /\ config \in {RateLimitConfig(1, w, "sliding_window", TRUE, <<>>) : w \in 1..MaxWindow}
    /\ pc = [p \in Callers |-> "idle"]
    /\ local = [p \in Callers |-> [now |-> 0]]
    /\ hist = [total |-> 0, redis |-> EmptyRedis, stamps |-> <<>>]
    /\ last = NoOp

\* addTimestamp($key, $now, 2 * windowSeconds), as the algorithm calls it
StampAdd ==
    /\ hist.total < MaxChecks
    /\ storage' = addTimestamp(storage, SlideKey, clock, StoreTtl, clock).st
    /\ hist' = [total |-> hist.total + 1,
                redis |-> Redis_addTimestamp(hist.redis, SlideKey, clock, StoreTtl, clock).st,
                stamps |-> Append(hist.stamps, clock)]
    /\ last' = [op |-> "addTimestamp", at |-> clock]
    /\ UNCHANGED <<clock, available, metricsHooks, config, pc, local>>

StampRemoveBefore(cutoff) ==
    /\ hist.total < MaxChecks
    /\ storage' = removeTimestampsBefore(storage, SlideKey, cutoff, clock).st
    /\ hist' = [total |-> hist.total + 1,
                redis |-> Redis_removeTimestampsBefore(hist.redis, SlideKey, cutoff, clock).st,
                stamps |-> SelectSeq(hist.stamps, LAMBDA t : ~(t < cutoff))]
    /\ last' = [op |-> "removeTimestampsBefore", at |-> clock, cutoff |-> cutoff]
    /\ UNCHANGED <<clock, available, metricsHooks, config, pc, local>>

StampCount(min, max) ==
    /\ hist.total < MaxChecks
    /\ LET mem == countTimestamps(storage, SlideKey, min, max, clock)
           red == Redis_countTimestamps(hist.redis, SlideKey, min, max, clock)
       IN  /\ storage' = mem.st
           /\ hist' = [hist EXCEPT !.total = @ + 1, !.redis = red.st]
           /\ last' = [op |-> "countTimestamps", at |-> clock, min |-> min, max |-> max,
                       memory |-> mem.ret, redis |-> red.ret]
    /\ UNCHANGED <<clock, available, metricsHooks, config, pc, local>>

StampNext ==
    \/ TickTo(RaceMaxTime)
    \/ StampAdd
    \/ \E cutoff \in 0..clock : StampRemoveBefore(cutoff)
    \/ \E min \in 0..clock, max \in 0..clock : min <= max /\ StampCount(min, max)

SpecStamps == StampInit /\ [][StampNext]_vars

\* C28: countTimestamps(key, min, max) returns the number of timestamps t with
\* min <= t <= max that were added, are not expired and were not below the
\* cutoff of a removeTimestampsBefore call, in either storage. (A timestamp
\* of the in-memory storage expires 2 * windowSeconds after its value; the
\* Redis part is stated for sets none of whose members is that old.)
C28_TimestampRange ==
    last.op = "countTimestamps" =>
        /\ last.memory =
              Len(SelectSeq(hist.stamps,
                      LAMBDA t : last.min <= t /\ t <= last.max /\ t + StoreTtl >= last.at))
        /\ (\A i \in DOMAIN hist.stamps : last.at - hist.stamps[i] < StoreTtl) =>
              last.redis =
                 Len(SelectSeq(hist.stamps, LAMBDA t : last.min <= t /\ t <= last.max))

----------------------------------------------------------------------------
(* Fixed Window: what a denied check leaves behind (SpecFWSeq) *)

\* C29: the window_count of a Fixed Window Decision is the number of checks,
\* allowed and denied, made on the key in that window so far; it exceeds limit
\* exactly in the denied Decisions, whose remaining is 0.
C29_DeniedCounts ==
    last.op = "check" =>
        /\ last.decision.metadata.window_count =
              SumOver(hist.checks, WindowFirst(last.at), last.at)
        /\ ~last.decision.allowed =>
              /\ last.decision.metadata.window_count > config.limit
              /\ last.decision.remaining = 0

\* the second denial in a window reports two checks more than the limit
C29_Witness ==
    /\ last.op = "check"
    /\ ~last.decision.allowed
    /\ last.decision.metadata.window_count = config.limit + 2
    /\ last.decision.remaining = 0

----------------------------------------------------------------------------
(* A hook that throws (SpecRL) *)

\* the entry the algorithm's check at time now left in the storage st for the
\* Decision d it built: the counter at the reported count, a timestamp now, or
\* a bucket refilled at now that is no longer full
QuotaConsumed(st, d, now) ==
    LET key == RateLimitConfig_getKey(config, UserId)
    IN  CASE d.algorithm = "fixed_window" ->
                LET k == FixedWindow_windowKey(key, d.metadata.window_index)
                IN  k \in DOMAIN st.counters
                    /\ st.counters[k].value = d.metadata.window_count
          [] d.algorithm = "sliding_window" ->
                LET k == SlidingWindow_windowKey(key)
                IN  k \in DOMAIN st.timestamps
                    /\ \E i \in DOMAIN st.timestamps[k] : st.timestamps[k][i].timestamp = now
          [] d.algorithm = "token_bucket" ->
                LET k == TokenBucket_bucketKey(key)
                IN  k \in DOMAIN st.buckets
                    /\ st.buckets[k].lastRefill = now
                    /\ st.buckets[k].tokens # RInt(config.limit)

\* C30: when a hook throws during check, the exception leaves check, the hooks
\* up to and including that one have been called and none after it, and what
\* the algorithm wrote for an allowed check (and for any Fixed Window check)
\* is in the storage.
C30_HookThrowKeepsQuota ==
    (last.op = "check" /\ last.thrower > 0) =>
        /\ last.outcome = "thrown"
        /\ last.calls = [i \in 1..last.thrower |->
                            [hook |-> metricsHooks[i], decision |-> last.decision]]
        /\ (available /\ (last.decision.allowed \/ config.algorithm = "fixed_window")) =>
              /\ last.touched
              /\ QuotaConsumed(storage, last.decision, last.at)

\* the first of two hooks throws on an allowed check
C30_Witness ==
    /\ last.op = "check"
    /\ last.thrower = 1
    /\ Len(metricsHooks) = 2
    /\ available
    /\ last.decision.allowed
    /\ last.outcome = "thrown"
    /\ Len(last.calls) = 1

----------------------------------------------------------------------------
(* Two callers with different (keyPrefix, identifier) pairs, hist.pair[1]   *)
(* and hist.pair[2], checked by one RateLimiter over one storage with a     *)
(* Fixed Window limit of 1.                                                 *)

KeyPrefixes == {<<>>, <<"a">>, <<"b">>, <<"a:b">>}

KeyIdentifiers == {"a", "b", "c", "a:b", "b:c"}

KeyInit ==
    /\ clock = 0
    /\ storage = EmptyStorage
    /\ available = TRUE
    /\ metricsHooks = <<>>
    /\ config = RateLimitConfig(1, MaxWindow, "fixed_window", TRUE, <<>>)
    /\ pc = [p \in Callers |-> "idle"]
    /\ local = [p \in Callers |-> [now |-> 0]]
    /\ \E p1, p2 \in KeyPrefixes, i1, i2 \in KeyIdentifiers :
          /\ <<p1, i1>> # <<p2, i2>>
          /\ hist = [total |-> 0, by |-> <<0, 0>>,
                     pair |-> <<[keyPrefix |-> p1, identifier |-> i1],
                                [keyPrefix |-> p2, identifier |-> i2]>>]
    /\ last = NoOp

\* check(identifier, config with the keyPrefix) for the pair numbered who
KeyCheck(who) ==
    /\ hist.total < LimiterChecks
    /\ LET cfg == [config EXCEPT !.keyPrefix = hist.pair[who].keyPrefix]
           r   == RateLimiter_check(hist.pair[who].identifier, cfg, storage, available,
                                    metricsHooks, clock, clock, 0)
       IN  /\ storage' = r.st
           /\ hist' = [hist EXCEPT !.total = @ + 1, !.by[who] = @ + 1]
           /\ last' = [op |-> "check", who |-> who, decision |-> r.decision,
                       key |-> RateLimitConfig_getKey(cfg, hist.pair[who].identifier)]
    /\ UNCHANGED <<clock, available, metricsHooks, config, pc, local>>

KeyNext ==
    \/ TickTo(LimiterMaxTime)
    \/ \E who \in {1, 2} : KeyCheck(who)

SpecKeys == KeyInit /\ [][KeyNext]_vars

\* C31: the qualified key of a check differs from the qualified key of the
\* other pair, and the first check of a pair is allowed whatever checks the
\* other pair has made.
C31_KeysDistinct ==
    last.op = "check" =>
        LET other == hist.pair[3 - last.who]
        IN  /\ last.key # RateLimitConfig_getKey([config EXCEPT !.keyPrefix = other.keyPrefix],
                                                 other.identifier)
            /\ hist.by[last.who] = 1 => last.decision.allowed

----------------------------------------------------------------------------
(* The timestamp set a Sliding Window check leaves (SpecSW) *)

\* the number of entries stamped t that the storage holds under the key
StoredAt(st, key, t) ==
    IF key \notin DOMAIN st.timestamps THEN 0
    ELSE Len(SelectSeq(st.timestamps[key], LAMBDA e : e.timestamp = t))

\* C32: after a denied Sliding Window check at time now the key's set holds
\* the timestamps of the admissions made at now - windowSeconds or later, each
\* once, and nothing else: the denied check added none.
C32_DeniedRecordsNothing ==
    (last.op = "check" /\ ~last.decision.allowed) =>
        \A t \in Times :
            StoredAt(storage, SlidingWindow_windowKey(SlideKey), t)
                = IF t >= last.at - config.windowSeconds /\ t <= last.at
                  THEN hist.admits[t] ELSE 0

\* a denied check that evicted an older admission
C32_Witness ==
    /\ last.op = "check"
    /\ ~last.decision.allowed
    /\ \E t \in Times : t < last.at - config.windowSeconds /\ hist.admits[t] > 0

----------------------------------------------------------------------------
(* Fixed Window: how long a window's counter lives (SpecFWSeq) *)

\* the checks made so far at the instants of window n
ChecksInWindow(n) ==
    SumOver(hist.checks, n * config.windowSeconds,
            Min(MaxTime, (n + 1) * config.windowSeconds - 1))

\* C34: the count a Fixed Window check reports is the number of checks made in
\* its window so far (the counter has not restarted), and a get of the counter
\* of window N made up to the end of window N + 1 returns the number of checks
\* made in window N, when there were any.
C34_CounterOutlivesWindow ==
    /\ last.op = "check" =>
          last.decision.metadata.window_count
             = ChecksInWindow(last.decision.metadata.window_index)
    /\ (/\ last.op = "get"
        /\ last.at <= (last.window + 2) * config.windowSeconds
        /\ ChecksInWindow(last.window) > 0)
          => last.ret = <<ChecksInWindow(last.window)>>

\* the counter of a window read at the last instant of the window after it
C34_Witness ==
    /\ last.op = "get"
    /\ last.at = (last.window + 2) * config.windowSeconds - 1
    /\ config.windowSeconds > 1
    /\ last.ret # <<>>
    /\ last.ret[1] > config.limit

----------------------------------------------------------------------------
(* The numbers a Decision shows to the caller (SpecRL) *)

\* C35: every Decision built by a check, by one of the three algorithms or by
\* the failure policy, returned or not, has 0 <= remaining <= limit, remaining
\* = 0 when it denies, and limit equal to the limit of the configuration.
C35_RemainingInRange ==
    last.op = "check" =>
        /\ last.decision.limit = config.limit
        /\ last.decision.remaining \in 0..last.decision.limit
        /\ ~last.decision.allowed => last.decision.remaining = 0

\* a check denied by an algorithm, after checks that were allowed
C35_Witness ==
    /\ last.op = "check"
    /\ last.outcome = "returned"
    /\ last.decision.algorithm # "unknown"
    /\ ~last.decision.allowed
    /\ last.decision.remaining = 0
    /\ hist.total > config.limit

----------------------------------------------------------------------------
(* The availability gate of RateLimiter::check and the algorithm behind it: *)
(* callers pass the gate and run the algorithm in separate steps, the       *)
(* storage goes down and comes back in between, and an algorithm's check is *)
(* also called directly on the storage.                                     *)

GateInit ==
    /\ clock = 0
    /\ storage = EmptyStorage
    /\ available = TRUE
    /\ metricsHooks = <<>>
    /\ config \in {RateLimitConfig(MaxLimit, MaxWindow, a, f, <<>>) :
                      a \in Algorithms, f \in BOOLEAN}
    /\ pc = [p \in Callers |-> "idle"]
    /\ local = [p \in Callers |-> [now |-> 0]]
    /\ hist = [total |-> 0]
    /\ last = NoOp

\* check() up to line 45: isAvailable() is read; when it is false the failure
\* policy's Decision is returned, otherwise the caller goes on to line 47
GateEnter(p, wall) ==
    /\ pc[p] = "idle"
    /\ hist.total < LimiterChecks
    /\ hist' = [total |-> hist.total + 1]
    /\ IF available
       THEN /\ pc' = [pc EXCEPT ![p] = "algorithm"]
            /\ last' = [op |-> "gate", available |-> TRUE]
       ELSE /\ pc' = pc
            /\ last' = [op |-> "gate", available |-> FALSE,
                        decision |-> RateLimiter_handleStorageUnavailable(config, wall)]
    /\ UNCHANGED <<clock, storage, available, metricsHooks, config, local>>

\* check() lines 47-51 of a caller that passed the gate
GateRun(p) ==
    /\ pc[p] = "algorithm"
    /\ LET r == Algorithm_check(RateLimitConfig_getKey(config, UserId), config, storage, clock)
       IN  /\ storage' = r.st
           /\ last' = [op |-> "algorithm", gated |-> TRUE, at |-> clock,
                       available |-> available, decision |-> r.ret,
                       touched |-> r.st # storage]
    /\ pc' = [pc EXCEPT ![p] = "idle"]
    /\ UNCHANGED <<clock, available, metricsHooks, config, local, hist>>

\* $algorithm->check($key, $config, $storage) called without a RateLimiter
GateDirect ==
    /\ hist.total < LimiterChecks
    /\ hist' = [total |-> hist.total + 1]
    /\ LET r == Algorithm_check(RateLimitConfig_getKey(config, UserId), config, storage, clock)
       IN  /\ storage' = r.st
           /\ last' = [op |-> "algorithm", gated |-> FALSE, at |-> clock,
                       available |-> available, decision |-> r.ret,
                       touched |-> r.st # storage]
    /\ UNCHANGED <<clock, available, metricsHooks, config, pc, local>>

GateNext ==
    \/ TickTo(LimiterMaxTime)
    \/ \E b \in BOOLEAN : RLSetAvailable(b)
    \/ \E p \in Callers : \E wall \in (IF available THEN {clock} ELSE WallTimes(clock)) :
          GateEnter(p, wall)
    \/ \E p \in Callers : GateRun(p)
    \/ GateDirect

SpecGate == GateInit /\ [][GateNext]_vars

\* C36: a check stopped at the gate gets the failure policy's Decision; an
\* algorithm's check that runs while the storage reports unavailable, called
\* directly or by a caller that passed the gate earlier, returns the
\* algorithm's own Decision, and what it wrote (for an allowed check and for
\* any Fixed Window check) is in the storage.
C36_GateOnly ==
    /\ (last.op = "gate" /\ ~last.available) =>
          /\ last.decision.algorithm = "unknown"
          /\ last.decision.allowed = ~config.failClosed
    /\ (last.op = "algorithm" /\ ~last.available) =>
          /\ last.decision.algorithm = config.algorithm
          /\ (last.decision.allowed \/ config.algorithm = "fixed_window")
                => /\ last.touched
                   /\ QuotaConsumed(storage, last.decision, last.at)

\* the storage went down after a caller passed the gate, and the caller's
\* algorithm ran and admitted the request under a fail-closed configuration
C36_Witness ==
    /\ last.op = "algorithm"
    /\ last.gated
    /\ ~last.available
    /\ config.failClosed
    /\ last.decision.allowed
    /\ last.touched

============================================================================
